---- MODULE Spec2Model ----
\* Verification model of gorm-deep-filtering (package deepgorm):
\*   - the relation cache and classifier of deep-filtering.go
\*     (getDatabaseFieldsOfType / getNestedType),
\*   - the recursive filter compiler (AddDeepFilters / addDeepFilter),
\*   - the earlier compiler of unnamed/part_002, whose addDeepFilter is handed
\*     the scope of its sub-selects,
\*   - the part of gorm's query builder the compiler composes with
\*     (Session / Where / Model / Table / Select) and the row set the composed
\*     statement selects.
EXTENDS Integers, Sequences, FiniteSets, TLC

VARIABLES build, migrated, cacheDatabaseMap, pc, call, outcome

\* the goroutines inside getDatabaseFieldsOfType: the map objects they
\* allocated, the object the cache holds under each key, and each lookup
VARIABLES heap, cacheRefs, lookups, returned

cacheVars == <<heap, cacheRefs, lookups, returned>>

\* the plugin of plugin.go: the plugin object, gorm's chain of query
\* callbacks, the query the chain runs for (request), and how far
\* the run has come
VARIABLES plugin, chain, request, run

pluginVars == <<plugin, chain, request, run>>

\* getNestedType called by itself: its arguments and what it returned
VARIABLE classifier

\* getDatabaseFieldsOfType called with a naming strategy, one call after the
\* other in one process: the last call, and what it returned
VARIABLE lookup

\* one AddDeepFilters call followed statement by statement: the filter it was
\* given and the stack of AddDeepFilters invocations that are running
VARIABLE compile

vars ==
  <<build, migrated, cacheDatabaseMap, pc, call, outcome, cacheVars, pluginVars,
    classifier, lookup, compile>>

-----------------------------------------------------------------------------
\* Bounds of the explored inputs.

\* number of filter mappings handed to one AddDeepFilters call (filters ...)
MaxFilters == 2
\* number of top-level keys over all filter mappings of one call
MaxEntries == 2
\* nesting depth of filter mappings below the top-level mapping
MaxDepth == 2
\* number of goroutines that look relation mappings up concurrently
MaxThreads == 2
\* number of getDatabaseFieldsOfType calls one goroutine makes
MaxLookups == 2
\* number of conditions in the WHERE clause of a query the plugin rewrites
MaxConds == 2
\* number of getDatabaseFieldsOfType calls of one process
MaxCalls == 3

\* scalar filter values and column contents
Scalars == {"X", "Y"}
\* primary keys of the rows of a table, and the NULL of a nullable reference
RowIDs == {"1", "2"}
NullRef == "NULL"

-----------------------------------------------------------------------------
\* reflect types of struct fields.

StringT == [kind |-> "string"]
UUIDT == [kind |-> "array"]
IntT == [kind |-> "int"]
StructT(n) == [kind |-> "struct", name |-> n]
PtrT(t) == [kind |-> "ptr", elem |-> t]
SliceT(t) == [kind |-> "slice", elem |-> t]

NoTags == [k \in {} |-> ""]

ScalarField(n, t, col) ==
  [Name |-> n, FieldType |-> t, TagSettings |-> NoTags, DBName |-> col]

RelationField(n, t, tags) ==
  [Name |-> n, FieldType |-> t, TagSettings |-> tags, DBName |-> ""]

\* The entity types of the explored programs: the mock types of the test
\* suite (MockModel/Metadata, ComplexStruct2/Tag, ManyA/ManyB) and the
\* Person/Group pair of the AddDeepFilters godoc, whose Group field carries no
\* relationship annotation; SimpleStruct6 has scalar fields only and no key;
\* Resource/End are joined through the table middles, with column names,
\* key columns and join columns of their own; TestStruct has two to-one
\* relations, one of them to itself (with a Name column to filter on).
Schema ==
  [ MockModel |->
      [ name |-> "MockModel", table |-> "mock_models",
        fields |-> << ScalarField("ID", UUIDT, "id"),
                      ScalarField("Name", StringT, "name"),
                      RelationField("Metadata", PtrT(StructT("Metadata")),
                                    [FOREIGNKEY |-> "MetadataID"]),
                      ScalarField("MetadataID", PtrT(UUIDT), "metadata_id") >> ],
    Metadata |->
      [ name |-> "Metadata", table |-> "metadata",
        fields |-> << ScalarField("ID", UUIDT, "id"),
                      ScalarField("Name", StringT, "name"),
                      ScalarField("MockModelID", UUIDT, "mock_model_id"),
                      RelationField("MockModel", PtrT(StructT("MockModel")),
                                    [FOREIGNKEY |-> "MockModelID"]) >> ],
    ComplexStruct2 |->
      [ name |-> "ComplexStruct2", table |-> "complex_struct2",
        fields |-> << ScalarField("ID", UUIDT, "id"),
                      ScalarField("Name", StringT, "name"),
                      RelationField("Tags", SliceT(PtrT(StructT("Tag"))),
                                    [FOREIGNKEY |-> "ComplexStructRef"]) >> ],
    Tag |->
      [ name |-> "Tag", table |-> "tags",
        fields |-> << ScalarField("ID", UUIDT, "id"),
                      ScalarField("Value", StringT, "value"),
                      ScalarField("ComplexStructRef", UUIDT, "complex_struct_ref") >> ],
    ManyA |->
      [ name |-> "ManyA", table |-> "many_as",
        fields |-> << ScalarField("ID", UUIDT, "id"),
                      ScalarField("A", StringT, "a"),
                      RelationField("ManyBs", SliceT(PtrT(StructT("ManyB"))),
                                    [MANY2MANY |-> "a_b"]) >> ],
    ManyB |->
      [ name |-> "ManyB", table |-> "many_bs",
        fields |-> << ScalarField("ID", UUIDT, "id"),
                      ScalarField("B", StringT, "b"),
                      RelationField("ManyAs", SliceT(PtrT(StructT("ManyA"))),
                                    [MANY2MANY |-> "a_b"]) >> ],
    Person |->
      [ name |-> "Person", table |-> "people",
        fields |-> << ScalarField("ID", IntT, "id"),
                      ScalarField("Name", StringT, "name"),
                      RelationField("Group", StructT("Group"), NoTags),
                      ScalarField("GroupID", IntT, "group_id") >> ],
    Group |->
      [ name |-> "Group", table |-> "groups",
        fields |-> << ScalarField("ID", IntT, "id"),
                      ScalarField("Name", StringT, "name") >> ],
    SimpleStruct6 |->
      [ name |-> "SimpleStruct6", table |-> "simple_struct6",
        fields |-> << ScalarField("Name", StringT, "name"),
                      ScalarField("Occupation", StringT, "occupation") >> ],
    Resource |->
      [ name |-> "Resource", table |-> "resource",
        fields |-> << ScalarField("ID", UUIDT, "resourceId"),
                      ScalarField("Name", StringT, "resourceName"),
                      RelationField("Ends", SliceT(PtrT(StructT("End"))),
                                    [MANY2MANY |-> "middles",
                                     FOREIGNKEY |-> "resourceId",
                                     JOINFOREIGNKEY |-> "resourceIdJ",
                                     REFERENCES |-> "endId",
                                     JOINREFERENCES |-> "endIdJ"]) >> ],
    End |->
      [ name |-> "End", table |-> "end",
        fields |-> << ScalarField("ID", UUIDT, "endId"),
                      ScalarField("Value", StringT, "endValue") >> ],
    TestStruct |->
      [ name |-> "TestStruct", table |-> "test_structs",
        fields |-> << ScalarField("ID", IntT, "id"),
                      ScalarField("Name", StringT, "name"),
                      ScalarField("TestAID", IntT, "test_a_id"),
                      RelationField("A", PtrT(StructT("TestStruct")),
                                    [FOREIGNKEY |-> "TestAID"]),
                      ScalarField("TestBID", IntT, "test_b_id"),
                      RelationField("B", PtrT(StructT("NestedStruct1")),
                                    [FOREIGNKEY |-> "TestBID"]) >> ],
    NestedStruct1 |->
      [ name |-> "NestedStruct1", table |-> "nested_struct1",
        fields |-> << ScalarField("ID", IntT, "id"),
                      ScalarField("Name", StringT, "name") >> ] ]

Types == DOMAIN Schema

\* Types that single tests declare inside their function: the Resource and
\* Tag of TestAddDeepFilters_AddsDeepFiltersWithManyToMany2, which have the
\* names of other types of the package, and an Article with a text[] column
\* that carries a foreignKey setting, one without settings, a struct without
\* settings and a to-one relation.
Declared ==
  [ Resource2 |->
      [ name |-> "Resource", table |-> "resources",
        fields |-> << ScalarField("ID", UUIDT, "id"),
                      ScalarField("Name", StringT, "name"),
                      RelationField("Tags", SliceT(PtrT(StructT("Tag2"))),
                                    [MANY2MANY |-> "resource_tags"]) >> ],
    Tag2 |->
      [ name |-> "Tag", table |-> "tags",
        fields |-> << ScalarField("ID", UUIDT, "id"),
                      ScalarField("Key", StringT, "key"),
                      ScalarField("Value", StringT, "value") >> ],
    Article |->
      [ name |-> "Article", table |-> "articles",
        fields |-> << ScalarField("ID", IntT, "id"),
                      ScalarField("Name", StringT, "name"),
                      RelationField("Labels", SliceT(StringT),
                                    [FOREIGNKEY |-> "Name"]),
                      RelationField("Aliases", SliceT(StringT), NoTags),
                      RelationField("Person", StructT("Person"), NoTags),
                      RelationField("Group", PtrT(StructT("Group")),
                                    [FOREIGNKEY |-> "GroupID"]),
                      ScalarField("GroupID", IntT, "group_id") >> ] ]

\* the reflected type and the parsed schema of an entity type
TypeInfo(t) == IF t \in DOMAIN Schema THEN Schema[t] ELSE Declared[t]

\* The sets of entity types one program migrates and filters (AutoMigrate).
Programs ==
  { {"MockModel", "Metadata"}, {"ComplexStruct2", "Tag"},
    {"ManyA", "ManyB"}, {"Person", "Group"}, {"SimpleStruct6"},
    {"Resource", "End"}, {"TestStruct", "NestedStruct1"} }

\* schema.NamingStrategy.ColumnName: the snake-cased database name of a Go
\* identifier, on the identifiers the entity types use.
ColumnName(table, column) ==
  CASE column = "ID" -> "id"
    [] column = "Name" -> "name"
    [] column = "Value" -> "value"
    [] column = "A" -> "a"
    [] column = "B" -> "b"
    [] column = "Metadata" -> "metadata"
    [] column = "MetadataID" -> "metadata_id"
    [] column = "MockModel" -> "mock_model"
    [] column = "MockModelID" -> "mock_model_id"
    [] column = "Tags" -> "tags"
    [] column = "Tag" -> "tag"
    [] column = "ComplexStruct2" -> "complex_struct2"
    [] column = "ComplexStructRef" -> "complex_struct_ref"
    [] column = "ManyA" -> "many_a"
    [] column = "ManyAs" -> "many_as"
    [] column = "ManyB" -> "many_b"
    [] column = "ManyBs" -> "many_bs"
    [] column = "Person" -> "person"
    [] column = "Group" -> "group"
    [] column = "GroupID" -> "group_id"
    [] column = "Occupation" -> "occupation"
    [] column = "SimpleStruct6" -> "simple_struct6"
    [] column = "Resource" -> "resource"
    [] column = "resourceId" -> "resource_id"
    [] column = "Ends" -> "ends"
    [] column = "End" -> "end"
    [] column = "TestStruct" -> "test_struct"
    [] column = "NestedStruct1" -> "nested_struct1"
    [] column = "TestAID" -> "test_a_id"
    [] column = "TestBID" -> "test_b_id"
    [] column = "string" -> "string"
    [] column = "Labels" -> "labels"

\* string concatenation name + "_id" of getNestedType, on the names it meets
WithIdSuffix(name) ==
  CASE name = "many_a" -> "many_a_id"
    [] name = "many_b" -> "many_b_id"
    [] name = "mock_model" -> "mock_model_id"
    [] name = "metadata" -> "metadata_id"
    [] name = "tag" -> "tag_id"
    [] name = "complex_struct2" -> "complex_struct2_id"
    [] name = "person" -> "person_id"
    [] name = "group" -> "group_id"
    [] name = "resource" -> "resource_id"
    [] name = "end" -> "end_id"
    [] name = "test_struct" -> "test_struct_id"
    [] name = "nested_struct1" -> "nested_struct1_id"
    [] name = "string" -> "string_id"
    [] name = "Tag" -> "Tag_id"
    [] name = "Resource" -> "Resource_id"

\* The naming strategies of db.NamingStrategy: gorm's default, and one with
\* NoLowerCase, which leaves identifiers as they are written.
DefaultNaming == "schema.NamingStrategy{}"
NoLowerCase == "schema.NamingStrategy{NoLowerCase: true}"
Namings == {DefaultNaming, NoLowerCase}

\* naming.ColumnName(table, column)
NamingColumnName(naming, table, column) ==
  IF naming = NoLowerCase THEN column ELSE ColumnName(table, column)

-----------------------------------------------------------------------------
\* Relation classifier.

RECURSIVE ensureConcrete(_)
ensureConcrete(value) ==
  IF value.kind = "ptr" THEN ensureConcrete(value.elem) ELSE value

RECURSIVE ensureNotASlice(_)
ensureNotASlice(value) ==
  LET result == ensureConcrete(value)
  IN IF result.kind = "slice" THEN ensureNotASlice(result.elem) ELSE result

NoInstance == "<nil>"

\* reflect.Type.Name(): the name of a defined type, of a basic type its kind
TypeName(t) == IF t.kind = "struct" THEN TypeInfo(t.name).name ELSE t.kind

\* a getInstanceAndRelationOfField that looks at the kind of the field type
\* with its pointers
getInstanceAndRelationOfPointer(fieldType) ==
  CASE fieldType.kind = "struct" ->
         [instance |-> fieldType.name, relation |-> "oneToMany"]
    [] fieldType.kind = "slice" ->
         [instance |-> TypeName(ensureNotASlice(fieldType)),
          relation |-> "manyToOne"]
    [] OTHER -> [instance |-> NoInstance, relation |-> ""]

\* (instance, relation): the instance, reflect.New(T).Interface(), is a
\* pointer to a new zero value of T, and is named by T
getInstanceAndRelationOfField(fieldType) ==
  LET valueType == ensureConcrete(fieldType)
  IN CASE valueType.kind = "struct" ->
            [instance |-> valueType.name, relation |-> "oneToMany"]
       [] valueType.kind = "slice" ->
            [instance |-> TypeName(ensureNotASlice(valueType)),
             relation |-> "manyToOne"]
       [] OTHER -> [instance |-> NoInstance, relation |-> ""]

\* the nil *nestedType
NoNestedType ==
  [ relationType |-> "", fieldStructInstance |-> NoInstance, fieldForeignKey |-> "",
    manyToManyTable |-> "", destinationManyToManyForeignKey |-> "" ]

\* fmt.Errorf("no 'foreignKey:...' or 'many2many:...' found in field %s", name)
NoSettingErr(fieldName) ==
  <<"no 'foreignKey:...' or 'many2many:...' found in field %s", fieldName>>

\* a getNestedType that reads the many2many setting before the foreignKey
\* setting
getNestedTypeManyToManyFirst(dbField, ofType) ==
  LET src == getInstanceAndRelationOfField(dbField.FieldType)
      result == [ relationType |-> src.relation,
                  fieldStructInstance |-> src.instance,
                  fieldForeignKey |-> "",
                  manyToManyTable |-> "",
                  destinationManyToManyForeignKey |-> "" ]
      table == Schema[ofType].table
  IN IF "MANY2MANY" \in DOMAIN dbField.TagSettings
       THEN [ok |-> TRUE, isNil |-> FALSE, err |-> <<>>,
             result |-> [result EXCEPT
               !.relationType = "manyToMany",
               !.manyToManyTable = dbField.TagSettings["MANY2MANY"],
               !.fieldForeignKey =
                  WithIdSuffix(ColumnName(table,
                                          TypeName(ensureNotASlice(dbField.FieldType)))),
               !.destinationManyToManyForeignKey =
                  WithIdSuffix(ColumnName(table, Schema[ofType].name))]]
     ELSE IF "FOREIGNKEY" \notin DOMAIN dbField.TagSettings
       THEN [ok |-> FALSE, isNil |-> TRUE, err |-> NoSettingErr(dbField.Name),
             result |-> NoNestedType]
     ELSE [ok |-> TRUE, isNil |-> FALSE, err |-> <<>>,
           result |-> [result EXCEPT !.fieldForeignKey =
                         ColumnName(table, dbField.TagSettings["FOREIGNKEY"])]]

\* a getNestedType that returns the nestedType it began, with the error
getNestedTypeReturningResult(dbField, ofType) ==
  LET src == getInstanceAndRelationOfField(dbField.FieldType)
      result == [ relationType |-> src.relation,
                  fieldStructInstance |-> src.instance,
                  fieldForeignKey |-> "",
                  manyToManyTable |-> "",
                  destinationManyToManyForeignKey |-> "" ]
      table == Schema[ofType].table
  IN IF "FOREIGNKEY" \in DOMAIN dbField.TagSettings
       THEN [ok |-> TRUE, isNil |-> FALSE, err |-> <<>>,
             result |-> [result EXCEPT !.fieldForeignKey =
                           ColumnName(table, dbField.TagSettings["FOREIGNKEY"])]]
     ELSE IF "MANY2MANY" \notin DOMAIN dbField.TagSettings
       THEN [ok |-> FALSE, isNil |-> FALSE, err |-> NoSettingErr(dbField.Name),
             result |-> result]
     ELSE [ok |-> TRUE, isNil |-> FALSE, err |-> <<>>,
           result |-> [result EXCEPT
             !.relationType = "manyToMany",
             !.manyToManyTable = dbField.TagSettings["MANY2MANY"],
             !.fieldForeignKey =
                WithIdSuffix(ColumnName(table,
                                        TypeName(ensureNotASlice(dbField.FieldType)))),
             !.destinationManyToManyForeignKey =
                WithIdSuffix(ColumnName(table, Schema[ofType].name))]]

\* getNestedType(naming, dbField, ofType): (result, err) with ok for
\* err == nil and isNil for result == nil
getNestedTypeWith(naming, dbField, ofType) ==
  LET src == getInstanceAndRelationOfField(dbField.FieldType)
      result == [ relationType |-> src.relation,
                  fieldStructInstance |-> src.instance,
                  fieldForeignKey |-> "",
                  manyToManyTable |-> "",
                  destinationManyToManyForeignKey |-> "" ]
      table == TypeInfo(ofType).table
  IN IF "FOREIGNKEY" \in DOMAIN dbField.TagSettings
       THEN [ok |-> TRUE, isNil |-> FALSE, err |-> <<>>,
             result |-> [result EXCEPT !.fieldForeignKey =
                           NamingColumnName(naming, table,
                                            dbField.TagSettings["FOREIGNKEY"])]]
     ELSE IF "MANY2MANY" \notin DOMAIN dbField.TagSettings
       THEN [ok |-> FALSE, isNil |-> TRUE, err |-> NoSettingErr(dbField.Name),
             result |-> NoNestedType]
     ELSE [ok |-> TRUE, isNil |-> FALSE, err |-> <<>>,
           result |-> [result EXCEPT
             !.relationType = "manyToMany",
             !.manyToManyTable = dbField.TagSettings["MANY2MANY"],
             !.fieldForeignKey =
                WithIdSuffix(NamingColumnName(naming, table,
                               TypeName(ensureNotASlice(dbField.FieldType)))),
             !.destinationManyToManyForeignKey =
                WithIdSuffix(NamingColumnName(naming, table,
                                              TypeInfo(ofType).name))]]

\* getNestedType under the naming strategy of gorm.Open
getNestedType(dbField, ofType) == getNestedTypeWith(DefaultNaming, dbField, ofType)

\* the fields of a type that getDatabaseFieldsOfType stores a nestedType for
RelationalFields(t) ==
  { i \in DOMAIN TypeInfo(t).fields :
      /\ ensureConcrete(TypeInfo(t).fields[i].FieldType).kind \in {"struct", "slice"}
      /\ getNestedType(TypeInfo(t).fields[i], t).ok }

\* the freshly reflected relation mapping of a type (lines 257-271) under a
\* naming strategy
reflectFieldsWith(naming, t) ==
  LET idx == RelationalFields(t)
      keyOf(i) == NamingColumnName(naming, TypeInfo(t).table,
                                   TypeInfo(t).fields[i].Name)
  IN [ k \in { keyOf(i) : i \in idx } |->
         getNestedTypeWith(naming,
                           TypeInfo(t).fields[CHOOSE i \in idx : keyOf(i) = k],
                           t).result ]

\* the freshly reflected relation mapping under the naming strategy of
\* gorm.Open
reflectFields(t) ==
  LET idx == RelationalFields(t)
      keyOf(i) == ColumnName(Schema[t].table, Schema[t].fields[i].Name)
  IN [ k \in { keyOf(i) : i \in idx } |->
         getNestedType(Schema[t].fields[CHOOSE i \in idx : keyOf(i) = k], t).result ]

\* the cache key of a type: reflectType.Name()
reflectTypeName(t) == TypeInfo(t).name

\* getDatabaseFieldsOfType(naming, schemaInfo): [fields, cache], the mapping
\* returned and the cache afterwards
getDatabaseFieldsOfTypeWith(cache, naming, t) ==
  IF reflectTypeName(t) \in DOMAIN cache
    THEN [fields |-> cache[reflectTypeName(t)], cache |-> cache]
    ELSE [fields |-> reflectFieldsWith(naming, t),
          cache |-> [ n \in DOMAIN cache \cup {reflectTypeName(t)} |->
                        IF n = reflectTypeName(t) THEN reflectFieldsWith(naming, t)
                        ELSE cache[n] ]]

\* [fields, cache]: the mapping returned and the cache afterwards
getDatabaseFieldsOfType(cache, t) ==
  IF reflectTypeName(t) \in DOMAIN cache
    THEN [fields |-> cache[reflectTypeName(t)], cache |-> cache]
    ELSE LET resultNestedType == reflectFields(t)
         IN [fields |-> resultNestedType,
             cache |-> [ n \in DOMAIN cache \cup {reflectTypeName(t)} |->
                           IF n = reflectTypeName(t) THEN resultNestedType
                           ELSE cache[n] ]]

-----------------------------------------------------------------------------
\* gorm's query builder, as far as the compiler uses it.  A *gorm.DB is its
\* clone mode and its Statement; a clause expression is one of
\*   eq    table.col = vals[1]          (clause.Eq, built from a map condition)
\*   in    table.col IN vals            (clause.IN, built from a slice value)
\*   expr  col IN (SELECT ... sub[1])   (clause.Expr "<col> IN (?)" with a *gorm.DB)
\*   and   all of exprs                 (clause.And of a nested *gorm.DB's WHERE)
\*   eqmap col = m                      (clause.Eq whose value is a nested mapping)
\* and every expression record carries all fields.

NoStatement == [Model |-> "", Table |-> "", Selects |-> <<>>, Where |-> <<>>]

ClauseEq(table, col, v) ==
  [op |-> "eq", table |-> table, col |-> col, vals |-> <<v>>, sub |-> <<>>,
   exprs |-> <<>>, m |-> <<>>]

ClauseIN(table, col, vs) ==
  [op |-> "in", table |-> table, col |-> col, vals |-> vs, sub |-> <<>>,
   exprs |-> <<>>, m |-> <<>>]

ClauseEqMap(table, col, m) ==
  [op |-> "eqmap", table |-> table, col |-> col, vals |-> <<>>, sub |-> <<>>,
   exprs |-> <<>>, m |-> m]

ClauseExpr(col, stmt) ==
  [op |-> "expr", table |-> "", col |-> col, vals |-> <<>>, sub |-> <<stmt>>,
   exprs |-> <<>>, m |-> <<>>]

ClauseAnd(exprs) ==
  IF Len(exprs) = 1 THEN exprs[1]
  ELSE [op |-> "and", table |-> "", col |-> "", vals |-> <<>>, sub |-> <<>>,
        exprs |-> exprs, m |-> <<>>]

\* db.Session(&gorm.Session{NewDB: newDB}): the Statement pointer is shared,
\* only the clone mode changes
Session(db, newDB) == [db EXCEPT !.clone = IF newDB THEN 1 ELSE 2]

\* (*DB).getInstance: clone mode 1 starts from an empty Statement, mode 2 from
\* a copy of the Statement, mode 0 continues on the Statement itself
getInstance(db) ==
  [clone |-> 0,
   Statement |-> IF db.clone = 1 THEN NoStatement ELSE db.Statement]

Where(db, conds) ==
  LET tx == getInstance(db)
  IN IF conds = <<>> THEN tx
     ELSE [tx EXCEPT !.Statement.Where = @ \o conds]

Model(db, value) == [getInstance(db) EXCEPT !.Statement.Model = value]

Table(db, name) == [getInstance(db) EXCEPT !.Statement.Table = name]

Select(db, col) == [getInstance(db) EXCEPT !.Statement.Selects = <<col>>]

\* Statement.BuildCondition on a *gorm.DB argument: the argument's WHERE
\* expressions as one group, nothing when it has no WHERE clause
DBConds(sub) ==
  IF sub.Statement.Where = <<>> THEN <<>> ELSE << ClauseAnd(sub.Statement.Where) >>

\* Statement.BuildCondition on a map: one clause.Eq (clause.IN for a slice)
\* per key, in sorted key order; table is the qualifier the keys carry
KeyOrder ==
  << "a", "b", "does_not_exist", "endValue", "ends", "group", "id", "many_as",
     "many_bs", "metadata", "mock_model", "name", "occupation", "resourceName",
     "tags", "value" >>

\* a builder whose conditions carry no table qualifier
RECURSIVE MapCondsUnqualified(_, _, _)
MapCondsUnqualified(table, simpleFilter, i) ==
  IF i > Len(KeyOrder) THEN <<>>
  ELSE LET k == KeyOrder[i]
           rest == MapCondsUnqualified(table, simpleFilter, i + 1)
       IN IF k \notin DOMAIN simpleFilter THEN rest
          ELSE IF simpleFilter[k].kind = "slice"
                 THEN << [op |-> "in", table |-> "", col |-> k,
                          vals |-> simpleFilter[k].l, sub |-> <<>>,
                          exprs |-> <<>>, m |-> <<>>] >> \o rest
               ELSE << [op |-> "eq", table |-> "", col |-> k,
                        vals |-> <<simpleFilter[k].s>>, sub |-> <<>>,
                        exprs |-> <<>>, m |-> simpleFilter[k].m] >> \o rest

RECURSIVE MapConds(_, _, _)
MapConds(table, simpleFilter, i) ==
  IF i > Len(KeyOrder) THEN <<>>
  ELSE LET k == KeyOrder[i]
           rest == MapConds(table, simpleFilter, i + 1)
       IN IF k \notin DOMAIN simpleFilter THEN rest
          ELSE IF simpleFilter[k].kind = "slice"
                 THEN <<ClauseIN(table, k, simpleFilter[k].l)>> \o rest
               ELSE IF simpleFilter[k].kind = "map"
                 THEN <<ClauseEqMap(table, k, simpleFilter[k].m)>> \o rest
               ELSE <<ClauseEq(table, k, simpleFilter[k].s)>> \o rest

-----------------------------------------------------------------------------
\* Filter mappings.  A map[string]any is the sequence of its entries in the
\* order the range loop visits them; a value is a scalar, a slice of scalars
\* or a nested mapping.

ScalarVal(v) == [kind |-> "scalar", s |-> v, l |-> <<>>, m |-> <<>>]
SliceVal(vs) == [kind |-> "slice", s |-> "", l |-> vs, m |-> <<>>]
MapVal(m) == [kind |-> "map", s |-> "", l |-> <<>>, m |-> m]
Entry(k, v) == [key |-> k, val |-> v]

NoErr == <<>>
FieldErr(fieldName) == <<"field '%s' does not exist", fieldName>>
RelationErr(relationType) == <<"relationType '%s' unknown", relationType>>

NoDB == [clone |-> 0, Statement |-> NoStatement]

\* the (*gorm.DB, error) a call returns; isNil tells a nil *gorm.DB, fault a
\* nil-pointer panic raised while the call ran; scopes lists, per addDeepFilter
\* invocation, the WHERE conditions a query built on cleanDB starts with
Returned(db, cache, scopes) ==
  [isNil |-> FALSE, db |-> db, err |-> NoErr, fault |-> FALSE,
   cache |-> cache, scopes |-> scopes]

Failed(err, cache, scopes) ==
  [isNil |-> TRUE, db |-> NoDB, err |-> err, fault |-> FALSE,
   cache |-> cache, scopes |-> scopes]

Panicked(cache, scopes) ==
  [isNil |-> TRUE, db |-> NoDB, err |-> NoErr, fault |-> TRUE,
   cache |-> cache, scopes |-> scopes]

RECURSIVE Flatten(_)
Flatten(filters) ==
  IF filters = <<>> THEN <<>> ELSE Head(filters) \o Flatten(Tail(filters))

NoSimpleFilter == [k \in {} |-> ScalarVal("")]

RECURSIVE AddDeepFilters(_, _, _, _)
RECURSIVE addDeepFilter(_, _, _, _)
RECURSIVE FilterLoop(_, _, _, _, _, _, _)
RECURSIVE afterDeepFilter(_, _, _, _, _, _)

\* the two range loops of AddDeepFilters (lines 81-106) from entry i on:
\* [r, simpleFilter], r.db being the local db when the loops end
FilterLoop(cache, db, relationalTypesInfo, entries, i, simpleFilter, scopes) ==
  IF i > Len(entries)
    THEN [r |-> Returned(db, cache, scopes), simpleFilter |-> simpleFilter]
  ELSE IF entries[i].val.kind = "map"
    THEN IF entries[i].key \notin DOMAIN relationalTypesInfo
           THEN [r |-> Failed(FieldErr(entries[i].key), cache, scopes),
                 simpleFilter |-> simpleFilter]
         ELSE afterDeepFilter(
                addDeepFilter(cache, db, relationalTypesInfo[entries[i].key],
                              entries[i].val.m),
                relationalTypesInfo, entries, i, simpleFilter, scopes)
  ELSE FilterLoop(cache, db, relationalTypesInfo, entries, i + 1,
                  [ k \in DOMAIN simpleFilter \cup {entries[i].key} |->
                      IF k = entries[i].key THEN entries[i].val ELSE simpleFilter[k] ],
                  scopes)

\* a compiler that starts the scalar filter anew after each relational key
afterDeepFilterForgetting(query, relationalTypesInfo, entries, i, simpleFilter, scopes) ==
  IF query.fault
    THEN [r |-> Panicked(query.cache, scopes \o query.scopes),
          simpleFilter |-> simpleFilter]
  ELSE IF query.err # NoErr
    THEN [r |-> Failed(query.err, query.cache, scopes \o query.scopes),
          simpleFilter |-> simpleFilter]
  ELSE FilterLoop(query.cache, query.db, relationalTypesInfo, entries, i + 1,
                  NoSimpleFilter, scopes \o query.scopes)

\* a compiler that ends the loops after the first relational key
afterDeepFilterEndingLoops(query, relationalTypesInfo, entries, i, simpleFilter, scopes) ==
  IF query.fault
    THEN [r |-> Panicked(query.cache, scopes \o query.scopes),
          simpleFilter |-> simpleFilter]
  ELSE IF query.err # NoErr
    THEN [r |-> Failed(query.err, query.cache, scopes \o query.scopes),
          simpleFilter |-> simpleFilter]
  ELSE FilterLoop(query.cache, query.db, relationalTypesInfo, entries,
                  Len(entries) + 1, simpleFilter, scopes \o query.scopes)

\* lines 94-99: query, err := addDeepFilter(...); give up on err, else db = query
afterDeepFilter(query, relationalTypesInfo, entries, i, simpleFilter, scopes) ==
  IF query.fault
    THEN [r |-> Panicked(query.cache, scopes \o query.scopes),
          simpleFilter |-> simpleFilter]
  ELSE IF query.err # NoErr
    THEN [r |-> Failed(query.err, query.cache, scopes \o query.scopes),
          simpleFilter |-> simpleFilter]
  ELSE FilterLoop(query.cache, query.db, relationalTypesInfo, entries, i + 1,
                  simpleFilter, scopes \o query.scopes)

\* a compiler that rejects a scalar key naming no column of objectType
addSimpleFiltersCheckingColumns(objectType, loop) ==
  IF loop.r.fault \/ loop.r.isNil THEN loop.r
  ELSE IF \E k \in DOMAIN loop.simpleFilter :
            \A i \in DOMAIN Schema[objectType].fields :
              Schema[objectType].fields[i].DBName # k
    THEN Failed(FieldErr(CHOOSE k \in DOMAIN loop.simpleFilter :
                           \A i \in DOMAIN Schema[objectType].fields :
                             Schema[objectType].fields[i].DBName # k),
                loop.r.cache, loop.r.scopes)
  ELSE Returned(Where(loop.r.db,
                      MapConds(Schema[objectType].table, loop.simpleFilter, 1)),
                loop.r.cache, loop.r.scopes)

\* lines 108-111: db.Where(simpleFilter) once the loops ended without error
addSimpleFilters(objectType, loop) ==
  IF loop.r.fault \/ loop.r.isNil THEN loop.r
  ELSE Returned(Where(loop.r.db,
                      MapConds(Schema[objectType].table, loop.simpleFilter, 1)),
                loop.r.cache, loop.r.scopes)

\* lines 76-106: the loops run on the relation mapping of objectType
filterWith(got, db, filters) ==
  FilterLoop(got.cache, db, got.fields, Flatten(filters), 1, NoSimpleFilter, <<>>)

AddDeepFilters(cache, db, objectType, filters) ==
  addSimpleFilters(objectType,
                   filterWith(getDatabaseFieldsOfType(cache, objectType), db, filters))

\* cleanDB.Model(instance).Select(col).Where(subQuery): the sub-select on the
\* related table
relatedSelect(cleanDB, instance, col, subQuery) ==
  Where(Select(Model(cleanDB, instance), col), DBConds(subQuery)).Statement

\* a compiler that takes the to-one relation for a to-many one
oneToManyQueryAsToMany(db, cleanDB, fieldInfo, subQuery) ==
  Where(db, << ClauseExpr("id",
                          relatedSelect(cleanDB, fieldInfo.fieldStructInstance,
                                        fieldInfo.fieldForeignKey, subQuery)) >>)

\* line 290: <foreign key> IN (SELECT id FROM <related> WHERE <filter>)
oneToManyQuery(db, cleanDB, fieldInfo, subQuery) ==
  Where(db, << ClauseExpr(fieldInfo.fieldForeignKey,
                          relatedSelect(cleanDB, fieldInfo.fieldStructInstance,
                                        "id", subQuery)) >>)

\* a compiler that takes the to-many relation for a to-one one
manyToOneQueryAsToOne(db, cleanDB, fieldInfo, subQuery) ==
  Where(db, << ClauseExpr(fieldInfo.fieldForeignKey,
                          relatedSelect(cleanDB, fieldInfo.fieldStructInstance,
                                        "id", subQuery)) >>)

\* line 296: id IN (SELECT <foreign key> FROM <related> WHERE <filter>)
manyToOneQuery(db, cleanDB, fieldInfo, subQuery) ==
  Where(db, << ClauseExpr("id",
                          relatedSelect(cleanDB, fieldInfo.fieldStructInstance,
                                        fieldInfo.fieldForeignKey, subQuery)) >>)

\* a compiler that swaps the two columns of the join table
manyToManyQuerySwapped(db, cleanDB, fieldInfo, subQuery) ==
  Where(db, << ClauseExpr("id",
      Where(Select(Table(cleanDB, fieldInfo.manyToManyTable),
                   fieldInfo.fieldForeignKey),
            << ClauseExpr(fieldInfo.destinationManyToManyForeignKey,
                          relatedSelect(cleanDB, fieldInfo.fieldStructInstance,
                                        "id", subQuery)) >>).Statement) >>)

\* line 305: id IN (SELECT <owner>_id FROM <join table> WHERE <related>_id IN
\*                   (SELECT id FROM <related> WHERE <filter>))
manyToManyQuery(db, cleanDB, fieldInfo, subQuery) ==
  Where(db, << ClauseExpr("id",
      Where(Select(Table(cleanDB, fieldInfo.manyToManyTable),
                   fieldInfo.destinationManyToManyForeignKey),
            << ClauseExpr(fieldInfo.fieldForeignKey,
                          relatedSelect(cleanDB, fieldInfo.fieldStructInstance,
                                        "id", subQuery)) >>).Statement) >>)

\* line 282: the scope sub-queries are compiled and built on
cleanScope(db) == Session(db, TRUE)

\* a compiler that adds the predicate to the clean scope, not to the parent query
composeDeepFilterOnCleanDB(db, cleanDB, fieldInfo, s, scope) ==
  IF s.fault \/ s.isNil THEN Panicked(s.cache, scope \o s.scopes)
  ELSE CASE fieldInfo.relationType = "oneToMany" ->
              Returned(oneToManyQuery(cleanDB, cleanDB, fieldInfo, s.db),
                       s.cache, scope \o s.scopes)
         [] fieldInfo.relationType = "manyToOne" ->
              Returned(manyToOneQuery(cleanDB, cleanDB, fieldInfo, s.db),
                       s.cache, scope \o s.scopes)
         [] fieldInfo.relationType = "manyToMany" ->
              Returned(manyToManyQuery(cleanDB, cleanDB, fieldInfo, s.db),
                       s.cache, scope \o s.scopes)

\* lines 284-306: the parent query with the predicate of one relation added,
\* s being what the nested AddDeepFilters call returned.  The return
\* expression is evaluated whatever err is; Where(subQuery) dereferences
\* subQuery.Statement, so a nil subQuery panics.
composeDeepFilter(db, cleanDB, fieldInfo, s, scope) ==
  IF s.fault \/ s.isNil THEN Panicked(s.cache, scope \o s.scopes)
  ELSE CASE fieldInfo.relationType = "oneToMany" ->
              Returned(oneToManyQuery(db, cleanDB, fieldInfo, s.db),
                       s.cache, scope \o s.scopes)
         [] fieldInfo.relationType = "manyToOne" ->
              Returned(manyToOneQuery(db, cleanDB, fieldInfo, s.db),
                       s.cache, scope \o s.scopes)
         [] fieldInfo.relationType = "manyToMany" ->
              Returned(manyToManyQuery(db, cleanDB, fieldInfo, s.db),
                       s.cache, scope \o s.scopes)

\* the WHERE conditions a query built on db starts with
scopeOf(db) == << getInstance(db).Statement.Where >>

addDeepFilter(cache, db, fieldInfo, filter) ==
  IF fieldInfo.relationType \notin {"oneToMany", "manyToOne", "manyToMany"}
    THEN Failed(RelationErr(fieldInfo.relationType), cache, scopeOf(cleanScope(db)))
  ELSE composeDeepFilter(
         db, cleanScope(db), fieldInfo,
         AddDeepFilters(cache, cleanScope(db), fieldInfo.fieldStructInstance, <<filter>>),
         scopeOf(cleanScope(db)))

-----------------------------------------------------------------------------
\* The compiler of unnamed/part_002, the build that keeps its cache in a
\* sync.Map: addDeepFilter takes the scope of the sub-selects from its caller
\* and hands the nested mapping to Where as it is.

\* fmt.Sprintf("%T", objectType) for an entity value of package deepgorm
percentT(t) ==
  CASE t = "MockModel" -> "deepgorm.MockModel"
    [] t = "Metadata" -> "deepgorm.Metadata"
    [] t = "ComplexStruct2" -> "deepgorm.ComplexStruct2"
    [] t = "Tag" -> "deepgorm.Tag"
    [] t = "ManyA" -> "deepgorm.ManyA"
    [] t = "ManyB" -> "deepgorm.ManyB"
    [] t = "Person" -> "deepgorm.Person"
    [] t = "Group" -> "deepgorm.Group"
    [] t = "SimpleStruct6" -> "deepgorm.SimpleStruct6"
    [] t = "Resource" -> "deepgorm.Resource"
    [] t = "End" -> "deepgorm.End"
    [] t = "TestStruct" -> "deepgorm.TestStruct"
    [] t = "NestedStruct1" -> "deepgorm.NestedStruct1"

\* part_002 lines 294-333: loaded under reflectType.Name(), stored under "%T"
legacyGetDatabaseFieldsOfType(cache, t) ==
  IF reflectTypeName(t) \in DOMAIN cache
    THEN [fields |-> cache[reflectTypeName(t)], cache |-> cache]
    ELSE [fields |-> reflectFields(t),
          cache |-> [ n \in DOMAIN cache \cup {percentT(t)} |->
                        IF n = percentT(t) THEN reflectFields(t) ELSE cache[n] ]]

\* a filter mapping as the map Where receives
AsMap(entries) ==
  [ k \in { entries[i].key : i \in DOMAIN entries } |->
      entries[CHOOSE i \in DOMAIN entries : entries[i].key = k].val ]

\* cleanDB.Model(instance).Select(col).Where(filter)
legacySelect(cleanDB, instance, col, filter) ==
  Where(Select(Model(cleanDB, instance), col), MapConds("", AsMap(filter), 1)).Statement

\* part_002 lines 337-362
legacyAddDeepFilter(cleanDB, resultDB, fieldInfo, filter) ==
  CASE fieldInfo.relationType = "oneToMany" ->
         Where(resultDB, << ClauseExpr(fieldInfo.fieldForeignKey,
                                       legacySelect(cleanDB, fieldInfo.fieldStructInstance,
                                                    "id", filter)) >>)
    [] fieldInfo.relationType = "manyToOne" ->
         Where(resultDB, << ClauseExpr("id",
                                       legacySelect(cleanDB, fieldInfo.fieldStructInstance,
                                                    fieldInfo.fieldForeignKey, filter)) >>)
    [] fieldInfo.relationType = "manyToMany" ->
         Where(resultDB, << ClauseExpr("id",
             Where(Select(Table(cleanDB, fieldInfo.manyToManyTable),
                          fieldInfo.destinationManyToManyForeignKey),
                   << ClauseExpr(fieldInfo.fieldForeignKey,
                                 legacySelect(cleanDB, fieldInfo.fieldStructInstance,
                                              "id", filter)) >>).Statement) >>)

\* part_002 lines 79-106: the range loops from entry i on, result being the
\* local result and db the parameter every addDeepFilter call gets as cleanDB
RECURSIVE legacyFilterLoop(_, _, _, _, _, _, _, _)
legacyFilterLoop(cache, db, result, relationalTypesInfo, entries, i, simpleFilter, scopes) ==
  IF i > Len(entries)
    THEN [r |-> Returned(result, cache, scopes), simpleFilter |-> simpleFilter]
  ELSE IF entries[i].val.kind = "map"
    THEN IF entries[i].key \notin DOMAIN relationalTypesInfo
           THEN [r |-> Failed(FieldErr(entries[i].key), cache, scopes),
                 simpleFilter |-> simpleFilter]
         ELSE legacyFilterLoop(
                cache, db,
                legacyAddDeepFilter(db, result, relationalTypesInfo[entries[i].key],
                                    entries[i].val.m),
                relationalTypesInfo, entries, i + 1, simpleFilter,
                scopes \o scopeOf(db))
  ELSE legacyFilterLoop(cache, db, result, relationalTypesInfo, entries, i + 1,
                        [ k \in DOMAIN simpleFilter \cup {entries[i].key} |->
                            IF k = entries[i].key THEN entries[i].val
                            ELSE simpleFilter[k] ],
                        scopes)

legacyFilterWith(got, db, filters) ==
  legacyFilterLoop(got.cache, db, db, got.fields, Flatten(filters), 1,
                   NoSimpleFilter, <<>>)

\* part_002 lines 68-113
legacyAddDeepFilters(cache, db, objectType, filters) ==
  addSimpleFilters(objectType,
                   legacyFilterWith(legacyGetDatabaseFieldsOfType(cache, objectType),
                                    db, filters))

-----------------------------------------------------------------------------
\* The rows a statement selects from a database state (query.Find).  A
\* database state maps a table name to its set of rows; env is the chain of
\* enclosing rows, innermost first, that a column name resolves against.

Unresolved == "<no such column>"

From(stmt) == IF stmt.Table # "" THEN stmt.Table ELSE Schema[stmt.Model].table

RECURSIVE Lookup(_, _, _, _)
Lookup(table, col, env, i) ==
  IF i > Len(env) THEN Unresolved
  ELSE IF (table = "" \/ table = env[i].table) /\ col \in DOMAIN env[i].row
    THEN env[i].row[col]
  ELSE Lookup(table, col, env, i + 1)

IsValue(v) == v # NullRef /\ v # Unresolved

RECURSIVE Holds(_, _, _)
RECURSIVE RowsOf(_, _, _)

RowsOf(stmt, d, env) ==
  { r \in d[From(stmt)] :
      \A i \in DOMAIN stmt.Where :
        Holds(stmt.Where[i], d, <<[table |-> From(stmt), row |-> r]>> \o env) }

Holds(e, d, env) ==
  CASE e.op = "eq" ->
         LET v == Lookup(e.table, e.col, env, 1)
         IN IsValue(v) /\ v = e.vals[1]
    [] e.op = "in" ->
         LET v == Lookup(e.table, e.col, env, 1)
         IN IsValue(v) /\ \E i \in DOMAIN e.vals : v = e.vals[i]
    \* v IN (SELECT sel FROM sub WHERE ...): some row of the sub-select's table
    \* has sel = v and satisfies the sub-select's conditions
    [] e.op = "expr" ->
         LET v == Lookup("", e.col, env, 1)
             sub == e.sub[1]
         IN IsValue(v) /\
            \E r \in d[From(sub)] :
              /\ v = Lookup("", sub.Selects[1],
                            <<[table |-> From(sub), row |-> r]>> \o env, 1)
              /\ \A i \in DOMAIN sub.Where :
                   Holds(sub.Where[i], d, <<[table |-> From(sub), row |-> r]>> \o env)
    [] e.op = "and" -> \A i \in DOMAIN e.exprs : Holds(e.exprs[i], d, env)
    \* a mapping is no SQL value: the statement fails and yields no row
    [] e.op = "eqmap" -> FALSE

\* the rows of objectType's table that query.Find(&[]objectType{}) returns
Find(query, objectType, d) ==
  RowsOf([query.Statement EXCEPT !.Model = objectType], d, <<>>)

-----------------------------------------------------------------------------
\* Database states of a program: every table of a migrated type holds rows
\* with distinct primary keys, the join table a_b holds pairs of keys.

Columns(t) ==
  { Schema[t].fields[i].DBName : i \in { j \in DOMAIN Schema[t].fields :
                                          Schema[t].fields[j].DBName # "" } }

FieldOfColumn(t, c) ==
  Schema[t].fields[CHOOSE i \in DOMAIN Schema[t].fields : Schema[t].fields[i].DBName = c]

\* the column of the primary key field ID, "" when the type has none
KeyColumn(t) ==
  IF \E i \in DOMAIN Schema[t].fields : Schema[t].fields[i].Name = "ID"
    THEN Schema[t].fields[CHOOSE i \in DOMAIN Schema[t].fields :
                            Schema[t].fields[i].Name = "ID"].DBName
    ELSE ""

\* a string column holds a scalar, a key column the key of a row; only a
\* pointer-typed column can be NULL
ColumnValues(t, c) ==
  IF c = KeyColumn(t) THEN RowIDs
  ELSE IF ensureConcrete(FieldOfColumn(t, c).FieldType).kind = "string" THEN Scalars
  ELSE IF FieldOfColumn(t, c).FieldType.kind = "ptr" THEN RowIDs \cup {NullRef}
  ELSE RowIDs

AllRows(t) ==
  { r \in [Columns(t) -> RowIDs \cup Scalars \cup {NullRef}] :
      \A c \in Columns(t) : r[c] \in ColumnValues(t, c) }

\* the rows of a table with a key column have pairwise different keys
TableStates(t) ==
  IF KeyColumn(t) # ""
    THEN { UNION { f[k] : k \in RowIDs } :
             f \in { g \in [RowIDs -> {{}} \cup { {r} : r \in AllRows(t) }] :
                       \A k \in RowIDs : \A r \in g[k] : r[KeyColumn(t)] = k } }
    ELSE SUBSET AllRows(t)

JoinTables == {"a_b", "middles"}

JoinStates(p) ==
  IF p = {"ManyA", "ManyB"}
    THEN SUBSET [many_a_id : RowIDs, many_b_id : RowIDs]
  ELSE IF p = {"Resource", "End"}
    THEN SUBSET [resourceIdJ : RowIDs, endIdJ : RowIDs]
  ELSE { {} }

\* the join table a program migrates, "" when it has none
JoinTableOf(p) ==
  IF p = {"ManyA", "ManyB"} THEN "a_b"
  ELSE IF p = {"Resource", "End"} THEN "middles"
  ELSE ""

TableNames == { Schema[t].table : t \in Types } \cup JoinTables

TypeOfTable(tbl) == CHOOSE t \in Types : Schema[t].table = tbl

TableStatesOf == [ t \in Types |-> TableStates(t) ]

\* the database states of every program
Databases ==
  [ p \in Programs |->
      { [ tbl \in TableNames |->
            IF tbl \in JoinTables
              THEN (IF tbl = JoinTableOf(p) THEN j ELSE {})
            ELSE IF TypeOfTable(tbl) \in p THEN rows[TypeOfTable(tbl)]
            ELSE {} ] :
          rows \in { f \in [ p -> UNION { TableStatesOf[t] : t \in p } ] :
                       \A t \in p : f[t] \in TableStatesOf[t] },
          j \in JoinStates(p) } ]

-----------------------------------------------------------------------------
\* Statements the database accepts.

\* the columns of a table
ColumnsOfTable(tbl) ==
  IF tbl = "a_b" THEN {"many_a_id", "many_b_id"}
  ELSE IF tbl = "middles" THEN {"resourceIdJ", "endIdJ"}
  ELSE Columns(TypeOfTable(tbl))

\* the column table.col names a column of one of the tables in scope
RECURSIVE Resolves(_, _, _, _)
Resolves(table, col, scope, i) ==
  IF i > Len(scope) THEN FALSE
  ELSE IF (table = "" \/ table = scope[i]) /\ col \in ColumnsOfTable(scope[i])
    THEN TRUE
  ELSE Resolves(table, col, scope, i + 1)

\* the database accepts the statement: every column it names exists, and no
\* value is a mapping
RECURSIVE Executes(_, _)
RECURSIVE ExprExecutes(_, _)

Executes(stmt, scope) ==
  /\ \A i \in DOMAIN stmt.Selects :
       Resolves("", stmt.Selects[i], <<From(stmt)>> \o scope, 1)
  /\ \A i \in DOMAIN stmt.Where :
       ExprExecutes(stmt.Where[i], <<From(stmt)>> \o scope)

ExprExecutes(e, scope) ==
  CASE e.op = "eq" -> Resolves(e.table, e.col, scope, 1)
    [] e.op = "in" -> Resolves(e.table, e.col, scope, 1)
    [] e.op = "expr" -> Resolves("", e.col, scope, 1) /\ Executes(e.sub[1], scope)
    [] e.op = "and" -> \A i \in DOMAIN e.exprs : ExprExecutes(e.exprs[i], scope)
    [] e.op = "eqmap" -> FALSE

-----------------------------------------------------------------------------
\* Inputs of a call.

\* the string columns of a type, the ones a scalar filter value is compared with
StringColumns(t) ==
  { c \in Columns(t) : ensureConcrete(FieldOfColumn(t, c).FieldType).kind = "string" }

\* the keys a filter names a string field of t by: its column, and its Go
\* name in the naming convention (the same key unless the column is declared)
ScalarKeys(t) ==
  StringColumns(t)
  \cup { ColumnName(Schema[t].table, FieldOfColumn(t, c).Name) : c \in StringColumns(t) }

\* the struct and collection fields of a type, annotated or not
StructFields(t) ==
  { i \in DOMAIN Schema[t].fields :
      ensureConcrete(Schema[t].fields[i].FieldType).kind \in {"struct", "slice"} }

StructKey(t, i) == ColumnName(Schema[t].table, Schema[t].fields[i].Name)

UnknownKey == "does_not_exist"

\* the slice values of a filter: []string{"X"} and []string{"X", "Y"}
Slices == { <<"X">>, <<"X", "Y">> }

\* the filter mappings nested under a field whose element type is t, with at
\* most d further levels of nesting below them
RECURSIVE NestedMappings(_, _)
NestedMappings(t, d) ==
  {<<>>}
  \cup { <<Entry(c, ScalarVal(v))>> : c \in ScalarKeys(t), v \in Scalars }
  \cup IF d = 0 THEN {}
       ELSE { <<Entry(UnknownKey, MapVal(<<>>))>> }
            \cup UNION { { <<Entry(StructKey(t, i), MapVal(m))>> :
                             m \in NestedMappings(
                                     ensureNotASlice(Schema[t].fields[i].FieldType).name,
                                     d - 1) } :
                         i \in StructFields(t) }

\* the entries of a top-level filter mapping for type t
TopEntries(t) ==
  { Entry(c, ScalarVal(v)) : c \in ScalarKeys(t), v \in Scalars }
  \cup { Entry(c, SliceVal(l)) : c \in StringColumns(t), l \in Slices }
  \cup { Entry(c, MapVal(<<>>)) : c \in StringColumns(t) }
  \cup { Entry(UnknownKey, ScalarVal("X")), Entry(UnknownKey, SliceVal(<<"X", "Y">>)),
         Entry(UnknownKey, MapVal(<<>>)) }
  \cup UNION { { Entry(StructKey(t, i), MapVal(m)) :
                   m \in NestedMappings(
                           ensureNotASlice(Schema[t].fields[i].FieldType).name,
                           MaxDepth - 1) } :
               i \in StructFields(t) }

\* the mappings of at most n entries with pairwise distinct keys, in every
\* iteration order
RECURSIVE TopMappings(_, _)
TopMappings(t, n) ==
  IF n = 0 THEN {<<>>}
  ELSE LET shorter == TopMappings(t, n - 1)
       IN shorter \cup
          { Append(pair[1], pair[2]) :
              pair \in { q \in shorter \X TopEntries(t) :
                           /\ Len(q[1]) = n - 1
                           /\ \A i \in DOMAIN q[1] : q[1][i].key # q[2].key } }

\* the filters ... arguments: at most k mappings holding at most n entries
RECURSIVE FilterLists(_, _, _)
FilterLists(t, k, n) ==
  IF k = 0 THEN {<<>>}
  ELSE {<<>>} \cup
       UNION { { <<m>> \o rest : rest \in FilterLists(t, k - 1, n - Len(m)) } :
               m \in TopMappings(t, n) }

Filters == [ t \in Types |-> FilterLists(t, MaxFilters, MaxEntries) ]

\* the condition a caller placed on the query before handing it over:
\* db.Where("<column> = ?", "Y")
CallerCondition(t) == ClauseEq("", CHOOSE c \in StringColumns(t) : TRUE, "Y")

\* the *gorm.DB values a caller hands over: the connection itself (gorm.Open),
\* a query it already chained a condition on, and a Session() of such a query
CallerDBs(t) ==
  LET conditioned == [NoStatement EXCEPT !.Model = t, !.Where = <<CallerCondition(t)>>]
  IN { [clone |-> 1, Statement |-> NoStatement],
       [clone |-> 0, Statement |-> conditioned],
       [clone |-> 2, Statement |-> conditioned] }

\* part_002 builds the sub-selects on the caller's *gorm.DB itself; on a
\* query the caller chained on directly the sub-select and the result are one
\* Statement (the "stackoverflow" of its comment), so the explored callers hand
\* over the connection or a Session() of a conditioned query
LegacyCallerDBs(t) == { db \in CallerDBs(t) : db.clone # 0 }

-----------------------------------------------------------------------------
\* The program: a process of one build migrates the types of one program, then
\* calls AddDeepFilters any number of times; the relation cache lives as long
\* as the process.

\* the two versions of the compiler the repository holds
Builds == {"deep-filtering.go", "part_002"}

NoCall == [objectType |-> "", db |-> NoDB, filters |-> <<>>]

NoOutcome == [isNil |-> TRUE, db |-> NoDB, err |-> NoErr, fault |-> FALSE, scopes |-> <<>>]

NoCache == [n \in {} |-> [k \in {} |-> 0]]

Threads == 1..MaxThreads

\* no goroutine is inside getDatabaseFieldsOfType
NoLookup ==
  [pc |-> "idle", typ |-> "", obj |-> 0, pending |-> {}, result |-> 0,
   n |-> 0, reflected |-> FALSE, stored |-> FALSE, after |-> {}]

NoLookups ==
  /\ heap = <<>>
  /\ cacheRefs = [n \in {} |-> 0]
  /\ lookups = [t \in Threads |-> NoLookup]
  /\ returned = {}

\* getNestedType is not called
NoClassifier ==
  [pc |-> "idle", dbField |-> RelationField("", StringT, NoTags), ofType |-> "",
   ok |-> FALSE, isNil |-> TRUE, err |-> <<>>, result |-> NoNestedType]

\* getDatabaseFieldsOfType was not called yet
NoLookupCall ==
  [pc |-> "idle", n |-> 0, naming |-> "", typ |-> "", hit |-> FALSE,
   fields |-> [k \in {} |-> NoNestedType], creator |-> [k \in {} |-> ""]]

\* gorm's query callbacks as callbacks.go registers them
\* no AddDeepFilters call is running
NoCompile == [pc |-> "idle", objectType |-> "", entries |-> <<>>, stack |-> <<>>]

DefaultCallbacks == << "gorm:query", "gorm:preload", "gorm:after_query" >>

NoQuery == [db |-> NoDB, hasWhere |-> FALSE, Error |-> <<>>, fault |-> FALSE]

NoRun ==
  [phase |-> "idle", cursor |-> 0, index |-> 0, before |-> <<>>,
   failed |-> {}, rewritten |-> FALSE, executed |-> FALSE]

\* no plugin is in use
NoPlugin ==
  /\ plugin = [version |-> "", wildcards |-> FALSE, used |-> FALSE, err |-> NoErr]
  /\ chain = DefaultCallbacks
  /\ request = NoQuery
  /\ run = NoRun

Init ==
  /\ build \in Builds
  /\ migrated \in Programs
  /\ cacheDatabaseMap = NoCache
  /\ pc = "idle"
  /\ call = NoCall
  /\ outcome = NoOutcome
  /\ NoLookups
  /\ NoPlugin
  /\ classifier = NoClassifier
  /\ lookup = NoLookupCall
  /\ compile = NoCompile

\* the caller holds what the call returned; the cache keeps what it stored
Returns(objectType, db, filters, r) ==
  /\ call' = [objectType |-> objectType, db |-> db, filters |-> filters]
  /\ outcome' = [isNil |-> r.isNil, db |-> r.db, err |-> r.err,
                 fault |-> r.fault, scopes |-> r.scopes]
  /\ cacheDatabaseMap' = r.cache

\* one AddDeepFilters(db, objectType, filters...) call, run to its return or panic
CallAddDeepFilters ==
  /\ build = "deep-filtering.go"
  /\ pc = "idle"
  /\ \E objectType \in migrated :
       \E db \in CallerDBs(objectType), filters \in Filters[objectType] :
         Returns(objectType, db, filters,
                 AddDeepFilters(cacheDatabaseMap, db, objectType, filters))
  /\ pc' = "returned"
  /\ UNCHANGED <<build, migrated, cacheVars, pluginVars, classifier, lookup, compile>>

\* one call of part_002's AddDeepFilters
CallLegacyAddDeepFilters ==
  /\ build = "part_002"
  /\ pc = "idle"
  /\ \E objectType \in migrated :
       \E db \in LegacyCallerDBs(objectType), filters \in Filters[objectType] :
         Returns(objectType, db, filters,
                 legacyAddDeepFilters(cacheDatabaseMap, db, objectType, filters))
  /\ pc' = "returned"
  /\ UNCHANGED <<build, migrated, cacheVars, pluginVars, classifier, lookup, compile>>

\* the caller is done with the returned query and error
Finish ==
  /\ pc = "returned"
  /\ pc' = "idle"
  /\ call' = NoCall
  /\ outcome' = NoOutcome
  /\ UNCHANGED <<build, migrated, cacheDatabaseMap, cacheVars, pluginVars, classifier, lookup, compile>>

Next == CallAddDeepFilters \/ CallLegacyAddDeepFilters \/ Finish

Spec == Init /\ [][Next]_vars

TypeOK ==
  /\ build \in Builds
  /\ migrated \in Programs
  /\ pc \in {"idle", "returned"}
  /\ DOMAIN cacheDatabaseMap \subseteq
       IF build = "part_002" THEN { percentT(t) : t \in migrated }
       ELSE { reflectTypeName(t) : t \in migrated }

-----------------------------------------------------------------------------
\* getDatabaseFieldsOfType of deep-filtering.go step by step, called by
\* several goroutines at once.  A Go map is an object: heap[o] is the content
\* of map object o, the cache holds objects, and a goroutine that returned
\* holds the object it was given.

NoMapping == [k \in {} |-> 0]

\* the mappings the cache holds, key by key
Contents(refs, objects) == [ n \in DOMAIN refs |-> objects[refs[n]] ]

\* m[key] = value of a Go map
MapSet(m, key, value) ==
  [ k \in DOMAIN m \cup {key} |-> IF k = key THEN value ELSE m[k] ]

\* a goroutine enters getDatabaseFieldsOfType for one of the migrated types
BeginLookup(t) ==
  /\ lookups[t].pc = "idle"
  /\ lookups[t].n < MaxLookups
  /\ \E typ \in migrated :
       lookups' = [lookups EXCEPT ![t] =
                     [pc |-> "load", typ |-> typ, obj |-> 0, pending |-> {},
                      result |-> 0, n |-> @.n + 1, reflected |-> FALSE,
                      stored |-> FALSE, after |-> returned]]
  /\ UNCHANGED <<heap, cacheRefs, returned, cacheDatabaseMap>>

\* a lookup that stores resultNestedType when it allocates it, before the
\* range fills it
CacheLoadStoringEarly(t) ==
  /\ lookups[t].pc = "load"
  /\ IF reflectTypeName(lookups[t].typ) \in DOMAIN cacheRefs
       THEN /\ lookups' = [lookups EXCEPT
                             ![t].pc = "return",
                             ![t].result = cacheRefs[reflectTypeName(lookups[t].typ)]]
            /\ heap' = heap
            /\ cacheRefs' = cacheRefs
       ELSE /\ heap' = Append(heap, NoMapping)
            /\ cacheRefs' = MapSet(cacheRefs, reflectTypeName(lookups[t].typ),
                                   Len(heap) + 1)
            /\ lookups' = [lookups EXCEPT
                             ![t].pc = "reflect",
                             ![t].obj = Len(heap) + 1,
                             ![t].pending = DOMAIN Schema[lookups[t].typ].fields]
  /\ cacheDatabaseMap' = Contents(cacheRefs', heap')
  /\ UNCHANGED returned

\* lines 253-257: cacheDatabaseMap.Load; a hit returns the cached object, a
\* miss allocates resultNestedType
CacheLoad(t) ==
  /\ lookups[t].pc = "load"
  /\ IF reflectTypeName(lookups[t].typ) \in DOMAIN cacheRefs
       THEN /\ lookups' = [lookups EXCEPT
                             ![t].pc = "return",
                             ![t].result = cacheRefs[reflectTypeName(lookups[t].typ)]]
            /\ heap' = heap
       ELSE /\ heap' = Append(heap, NoMapping)
            /\ lookups' = [lookups EXCEPT
                             ![t].pc = "reflect",
                             ![t].obj = Len(heap) + 1,
                             ![t].pending = DOMAIN Schema[lookups[t].typ].fields]
  /\ cacheDatabaseMap' = Contents(cacheRefs, heap')
  /\ UNCHANGED <<cacheRefs, returned>>

\* lines 259-271: one iteration of the range over schemaInfo.FieldsByName,
\* which visits the fields in any order
ReflectField(t) ==
  /\ lookups[t].pc = "reflect"
  /\ \E i \in lookups[t].pending :
       LET fieldInfo == Schema[lookups[t].typ].fields[i]
           nestedTypeResult == getNestedType(fieldInfo, lookups[t].typ)
       IN /\ heap' =
               IF /\ ensureConcrete(fieldInfo.FieldType).kind \in {"struct", "slice"}
                  /\ nestedTypeResult.ok
                 THEN [heap EXCEPT ![lookups[t].obj] =
                         MapSet(@, ColumnName(Schema[lookups[t].typ].table,
                                              fieldInfo.Name),
                                nestedTypeResult.result)]
                 ELSE heap
          /\ lookups' = [lookups EXCEPT ![t].pending = @ \ {i},
                                        ![t].reflected = TRUE]
  /\ cacheDatabaseMap' = Contents(cacheRefs, heap')
  /\ UNCHANGED <<cacheRefs, returned>>

\* a cache that stores under the %T name of the type
CacheStoreUnderPercentT(t) ==
  /\ lookups[t].pc = "reflect"
  /\ lookups[t].pending = {}
  /\ cacheRefs' = [ n \in DOMAIN cacheRefs \cup {percentT(lookups[t].typ)} |->
                      IF n = percentT(lookups[t].typ) THEN lookups[t].obj
                      ELSE cacheRefs[n] ]
  /\ lookups' = [lookups EXCEPT ![t].pc = "return",
                                ![t].result = lookups[t].obj,
                                ![t].stored = TRUE]
  /\ cacheDatabaseMap' = [ n \in DOMAIN cacheRefs' |-> heap[cacheRefs'[n]] ]
  /\ UNCHANGED <<heap, returned>>

\* lines 273-276: the range ended; cacheDatabaseMap.Store
CacheStore(t) ==
  /\ lookups[t].pc = "reflect"
  /\ lookups[t].pending = {}
  /\ cacheRefs' = MapSet(cacheRefs, reflectTypeName(lookups[t].typ), lookups[t].obj)
  /\ lookups' = [lookups EXCEPT ![t].pc = "return",
                                ![t].result = lookups[t].obj,
                                ![t].stored = TRUE]
  /\ cacheDatabaseMap' = Contents(cacheRefs', heap)
  /\ UNCHANGED <<heap, returned>>

\* lines 255 and 276: the caller receives the map object
ReturnLookup(t) ==
  /\ lookups[t].pc = "return"
  /\ lookups' = [lookups EXCEPT ![t].pc = "idle"]
  /\ returned' = returned \cup {[typ |-> lookups[t].typ, obj |-> lookups[t].result]}
  /\ UNCHANGED <<heap, cacheRefs, cacheDatabaseMap>>

CacheInit ==
  /\ build = "deep-filtering.go"
  /\ migrated \in Programs
  /\ cacheDatabaseMap = NoCache
  /\ pc = "idle"
  /\ call = NoCall
  /\ outcome = NoOutcome
  /\ NoLookups
  /\ NoPlugin
  /\ classifier = NoClassifier
  /\ lookup = NoLookupCall
  /\ compile = NoCompile

CacheNext ==
  /\ \E t \in Threads :
       \/ BeginLookup(t)
       \/ CacheLoad(t)
       \/ ReflectField(t)
       \/ CacheStore(t)
       \/ ReturnLookup(t)
  /\ UNCHANGED <<build, migrated, pc, call, outcome, pluginVars, classifier, lookup, compile>>

CacheSpec == CacheInit /\ [][CacheNext]_vars

-----------------------------------------------------------------------------
\* getNestedType by itself, on the fields of the classifier tests
\* (deep-filtering_test.go:373-566): structs, pointers to structs and slices,
\* with a foreignKey setting, a many2many setting, both or none.

ElementTypes ==
  << StructT("TestStruct"), StructT("NestedStruct1"), StructT("ManyB"),
     StructT("End"), StringT >>

\* the declared types of a field with element type e
FieldTypesOf(e) ==
  << e, PtrT(e), SliceT(e), SliceT(PtrT(e)), PtrT(SliceT(e)), SliceT(SliceT(e)) >>

ForeignKeys == << "TestAID", "TestBID", "resourceId" >>

JoinTableNames == << "a_b", "middles" >>

\* schema.ParseTagSetting of the gorm tag: the settings under upper-cased keys
TagSettingsOf(fk, m2m) ==
  [ k \in (IF fk = 0 THEN {} ELSE {"FOREIGNKEY"})
          \cup (IF m2m = 0 THEN {} ELSE {"MANY2MANY"}) |->
      IF k = "FOREIGNKEY" THEN ForeignKeys[fk] ELSE JoinTableNames[m2m] ]

\* the types whose fields are classified
OwnerTypes == {"TestStruct", "ManyA", "Resource"}

\* the names of the classified fields
FieldNames == {"A", "ManyBs"}

ClassifierInit ==
  /\ build = "deep-filtering.go"
  /\ migrated \in Programs
  /\ cacheDatabaseMap = NoCache
  /\ pc = "idle"
  /\ call = NoCall
  /\ outcome = NoOutcome
  /\ NoLookups
  /\ NoPlugin
  /\ lookup = NoLookupCall
  /\ compile = NoCompile
  /\ \E e \in DOMAIN ElementTypes, s \in 1..6, fk \in 0..Len(ForeignKeys),
        m2m \in 0..Len(JoinTableNames), owner \in OwnerTypes,
        name \in FieldNames :
       classifier = [NoClassifier EXCEPT
                       !.pc = "called",
                       !.dbField = RelationField(name, FieldTypesOf(ElementTypes[e])[s],
                                                 TagSettingsOf(fk, m2m)),
                       !.ofType = owner]

\* result, err := getNestedType(naming, dbField, ofType)
CallGetNestedType ==
  /\ classifier.pc = "called"
  /\ classifier' = [classifier EXCEPT
                      !.pc = "returned",
                      !.ok = getNestedType(classifier.dbField, classifier.ofType).ok,
                      !.isNil = getNestedType(classifier.dbField,
                                              classifier.ofType).isNil,
                      !.err = getNestedType(classifier.dbField, classifier.ofType).err,
                      !.result = getNestedType(classifier.dbField,
                                               classifier.ofType).result]
  /\ UNCHANGED <<build, migrated, cacheDatabaseMap, pc, call, outcome, cacheVars,
                 pluginVars, lookup, compile>>

ClassifierNext == CallGetNestedType

ClassifierSpec == ClassifierInit /\ [][ClassifierNext]_vars

-----------------------------------------------------------------------------
\* getDatabaseFieldsOfType over the life of one process: calls for the types
\* of several tests, under the naming strategy of each caller, and
\* resetCache.

\* the types the process asks relation mappings for
LookupTypes == {"Resource", "Resource2", "Article", "MockModel", "Person"}

LookupInit ==
  /\ build = "deep-filtering.go"
  /\ migrated \in Programs
  /\ cacheDatabaseMap = NoCache
  /\ pc = "idle"
  /\ call = NoCall
  /\ outcome = NoOutcome
  /\ NoLookups
  /\ NoPlugin
  /\ classifier = NoClassifier
  /\ lookup = NoLookupCall
  /\ compile = NoCompile

\* what a getDatabaseFieldsOfType call leaves behind; creator remembers the
\* type whose call stored each key
AfterLookup(naming, typ, found) ==
  /\ cacheDatabaseMap' = found.cache
  /\ lookup' =
       [pc |-> "returned", n |-> lookup.n + 1, naming |-> naming, typ |-> typ,
        hit |-> reflectTypeName(typ) \in DOMAIN cacheDatabaseMap,
        fields |-> found.fields,
        creator |-> [ k \in DOMAIN found.cache |->
                        IF k \in DOMAIN cacheDatabaseMap THEN lookup.creator[k]
                        ELSE typ ]]

\* relationalTypesInfo := getDatabaseFieldsOfType(db.NamingStrategy, schemaInfo)
CallGetDatabaseFieldsOfType ==
  /\ lookup.n < MaxCalls
  /\ \E naming \in Namings, typ \in LookupTypes :
       AfterLookup(naming, typ,
                   getDatabaseFieldsOfTypeWith(cacheDatabaseMap, naming, typ))

\* resetCache(): cacheDatabaseMap is a new, empty map
ResetCache ==
  /\ lookup.pc = "returned"
  /\ cacheDatabaseMap # NoCache
  /\ cacheDatabaseMap' = NoCache
  /\ lookup' = [lookup EXCEPT !.pc = "reset", !.creator = [k \in {} |-> ""]]

LookupNext ==
  /\ \/ CallGetDatabaseFieldsOfType
     \/ ResetCache
  /\ UNCHANGED <<build, migrated, pc, call, outcome, cacheVars, pluginVars,
                 classifier, compile>>

LookupSpec == LookupInit /\ [][LookupNext]_vars

-----------------------------------------------------------------------------
\* One AddDeepFilters call of deep-filtering.go statement by statement.  Each
\* invocation of AddDeepFilters is a frame on the stack of the calling
\* goroutine: the type it filters, its relationalTypesInfo, the entries its
\* range loops visit and the entry i it is at.

Frame(objectType, relationalTypesInfo, entries) ==
  [objectType |-> objectType, relationalTypesInfo |-> relationalTypesInfo,
   entries |-> entries, i |-> 1]

TopFrame == compile.stack[Len(compile.stack)]

\* the loops of the running invocation have an entry left
InLoop == compile.pc = "running" /\ TopFrame.i <= Len(TopFrame.entries)

CompileInit ==
  /\ build = "deep-filtering.go"
  /\ migrated \in Programs
  /\ cacheDatabaseMap = NoCache
  /\ pc = "idle"
  /\ call = NoCall
  /\ outcome = NoOutcome
  /\ NoLookups
  /\ NoPlugin
  /\ classifier = NoClassifier
  /\ lookup = NoLookupCall
  /\ compile = NoCompile

\* the relation mapping reflection gives for each entity type (lines 257-271)
ReflectedFields == [t \in Types |-> reflectFields(t)]

\* line 76: relationalTypesInfo := getDatabaseFieldsOfType(...), as [fields,
\* cache]: the cached mapping, or the reflected one, which is then stored
relationalTypesInfoOf(cache, t) ==
  IF reflectTypeName(t) \in DOMAIN cache
    THEN [fields |-> cache[reflectTypeName(t)], cache |-> cache]
    ELSE [fields |-> ReflectedFields[t],
          cache |-> [ n \in DOMAIN cache \cup {reflectTypeName(t)} |->
                        IF n = reflectTypeName(t) THEN ReflectedFields[t]
                        ELSE cache[n] ]]

\* lines 70-78 of an invocation: the relation mapping of objectType is looked
\* up, and stored in the cache by the first invocation for the type
Invoke(objectType, entries, below) ==
  \E found \in {relationalTypesInfoOf(cacheDatabaseMap, objectType)} :
    /\ cacheDatabaseMap' = found.cache
    /\ compile' = [pc |-> "running",
                   objectType |-> IF below = <<>> THEN objectType ELSE compile.objectType,
                   entries |-> IF below = <<>> THEN entries ELSE compile.entries,
                   stack |-> Append(below, Frame(objectType, found.fields, entries))]

\* the caller calls AddDeepFilters(db, objectType, filters...)
StartCompile ==
  /\ compile.pc = "idle"
  /\ \E objectType \in migrated :
       \E filters \in Filters[objectType] :
         Invoke(objectType, Flatten(filters), <<>>)

\* lines 101-103: a scalar or slice value goes to simpleFilter
NextEntry ==
  /\ InLoop
  /\ TopFrame.entries[TopFrame.i].val.kind # "map"
  /\ compile' = [compile EXCEPT !.stack[Len(compile.stack)].i = @ + 1]
  /\ UNCHANGED cacheDatabaseMap

\* lines 87-91: a nested mapping under a key that is no relation; the
\* invocation returns nil and the error.  The caller gets them from the first
\* invocation; a nested invocation returns them to addDeepFilter, whose return
\* expression (lines 290, 296, 306) passes the nil query to Where and panics
UnknownField ==
  /\ InLoop
  /\ TopFrame.entries[TopFrame.i].val.kind = "map"
  /\ TopFrame.entries[TopFrame.i].key \notin DOMAIN TopFrame.relationalTypesInfo
  /\ compile' = [compile EXCEPT
                   !.pc = IF Len(compile.stack) = 1 THEN "failed" ELSE "panicked",
                   !.stack = <<>>]
  /\ UNCHANGED cacheDatabaseMap

\* lines 94, 282-304: addDeepFilter invokes AddDeepFilters on the related
\* type with the nested mapping
EnterRelation ==
  /\ InLoop
  /\ TopFrame.entries[TopFrame.i].val.kind = "map"
  /\ TopFrame.entries[TopFrame.i].key \in DOMAIN TopFrame.relationalTypesInfo
  /\ \E fieldInfo \in {TopFrame.relationalTypesInfo[TopFrame.entries[TopFrame.i].key]} :
       Invoke(fieldInfo.fieldStructInstance, TopFrame.entries[TopFrame.i].val.m,
              compile.stack)

\* lines 108-111: the loops are over, the invocation returns its query; the
\* invocation that called it goes on with its next entry (lines 95-99)
ReturnQuery ==
  /\ compile.pc = "running"
  /\ TopFrame.i > Len(TopFrame.entries)
  /\ compile' =
       IF Len(compile.stack) = 1
         THEN [compile EXCEPT !.pc = "returned", !.stack = <<>>]
       ELSE [compile EXCEPT
               !.stack = [SubSeq(compile.stack, 1, Len(compile.stack) - 1)
                            EXCEPT ![Len(compile.stack) - 1].i = @ + 1]]
  /\ UNCHANGED cacheDatabaseMap

\* the caller is done with what the call returned
FinishCompile ==
  /\ compile.pc \in {"returned", "failed"}
  /\ compile' = NoCompile
  /\ UNCHANGED cacheDatabaseMap

\* the statements of a running call
CompileStep ==
  /\ NextEntry \/ UnknownField \/ EnterRelation \/ ReturnQuery
  /\ UNCHANGED <<build, migrated, pc, call, outcome, cacheVars, pluginVars,
                 classifier, lookup>>

CompileNext ==
  \/ CompileStep
  \/ /\ StartCompile \/ FinishCompile
     /\ UNCHANGED <<build, migrated, pc, call, outcome, cacheVars, pluginVars,
                    classifier, lookup>>

\* the call runs on the goroutine of its caller, which the Go scheduler keeps
\* running: a statement that can be executed is executed
CompileSpec == CompileInit /\ [][CompileNext]_vars /\ WF_vars(CompileStep)

-----------------------------------------------------------------------------
\* The plugin of plugin.go.  The file holds two versions of it: lines 1-85,
\* whose applyFilter takes a clause.Eq, and lines 87-187, whose applyFilter
\* takes a clause.Eq or a clause.IN.

PluginVersions == {"plugin.go:1-85", "plugin.go:87-187"}

\* clause.Eq{Column: col, Value: []string{...}}
ClauseEqSlice(col, vs) ==
  [op |-> "eqslice", table |-> "", col |-> col, vals |-> vs, sub |-> <<>>,
   exprs |-> <<>>, m |-> <<>>]

\* clause.Eq{Column: clause.Column{Name: col}, Value: v}
ClauseEqColumn(col, v) ==
  [op |-> "eqcolumn", table |-> "", col |-> col, vals |-> <<v>>, sub |-> <<>>,
   exprs |-> <<>>, m |-> <<>>]

\* clause.Expr{SQL: "<col> = ?", Vars: {v}}, what db.Where("<col> = ?", v) adds
ClauseRaw(col, v) ==
  [op |-> "raw", table |-> "", col |-> col, vals |-> <<v>>, sub |-> <<>>,
   exprs |-> <<>>, m |-> <<>>]

\* the conditions of a query on type t
Conds(t) ==
  { ClauseEq("", c, v) : c \in StringColumns(t), v \in Scalars }
  \cup { ClauseEqSlice(c, <<"X", "Y">>) : c \in StringColumns(t) }
  \cup { ClauseIN("", c, <<"X", "Y">>) : c \in StringColumns(t) }
  \cup { ClauseEqColumn(c, "X") : c \in StringColumns(t) }
  \cup { ClauseRaw(c, "Y") : c \in StringColumns(t) }
  \cup { ClauseEqMap("", UnknownKey, <<>>) }
  \cup UNION { { ClauseEqMap("", StructKey(t, i), m) :
                   m \in NestedMappings(
                           ensureNotASlice(Schema[t].fields[i].FieldType).name, 1) } :
               i \in StructFields(t) }

\* the WHERE lists of a query on type t: db.Where(...).Where(...)
RECURSIVE CondLists(_, _)
CondLists(t, n) ==
  IF n = 0 THEN {<<>>}
  ELSE CondLists(t, n - 1)
       \cup { Append(l, c) : l \in { k \in CondLists(t, n - 1) : Len(k) = n - 1 },
                             c \in Conds(t) }

\* a chain that takes a new callback at its end
RegisterLast(callbacks, name, before) == Append(callbacks, name)

\* Before(before).Register(name, fn) of gorm's callback processor: the chain
\* is sorted anew, name coming right before the callback it is to precede
Register(callbacks, name, before) ==
  IF \E i \in DOMAIN callbacks : callbacks[i] = before
    THEN LET i == CHOOSE j \in DOMAIN callbacks : callbacks[j] = before
         IN SubSeq(callbacks, 1, i - 1) \o <<name>>
            \o SubSeq(callbacks, i, Len(callbacks))
    ELSE Append(callbacks, name)

\* lines 14-22 and 43-45: db.Use(New(opts...)), which calls Initialize
Initialize ==
  /\ ~plugin.used
  /\ run.phase = "idle"
  /\ \E version \in PluginVersions, wildcards \in BOOLEAN :
       plugin' = [version |-> version, wildcards |-> wildcards, used |-> TRUE,
                  err |-> NoErr]
  /\ chain' = Register(chain, "deepgorm:query", "gorm:query")
  /\ UNCHANGED <<request, run, cacheDatabaseMap>>

\* db.Where(...).Find(&result): the statement is built and the chain starts
StartQuery ==
  /\ run.phase = "idle"
  /\ \E t \in migrated :
       \E conds \in CondLists(t, MaxConds) :
         request' = [db |-> [clone |-> 0,
                           Statement |-> [NoStatement EXCEPT !.Model = t,
                                                             !.Where = conds]],
                   hasWhere |-> conds # <<>>, Error |-> <<>>, fault |-> FALSE]
  /\ run' = [NoRun EXCEPT !.phase = "callbacks", !.cursor = 1]
  /\ UNCHANGED <<plugin, chain, cacheDatabaseMap>>

\* the chain calls its next callback: "deepgorm:query" is queryCallback
\* (lines 47-52, 133-138), "gorm:query" runs the statement unless the query
\* has an error
NextCallback ==
  /\ run.phase = "callbacks"
  /\ run.cursor <= Len(chain)
  /\ run' =
       IF chain[run.cursor] = "deepgorm:query"
         THEN IF request.hasWhere
                THEN [run EXCEPT !.phase = "deepgorm:query", !.index = 1,
                                 !.before = request.db.Statement.Where]
                ELSE [run EXCEPT !.cursor = @ + 1, !.rewritten = TRUE]
       ELSE IF chain[run.cursor] = "gorm:query"
         THEN [run EXCEPT !.cursor = @ + 1, !.executed = request.Error = <<>>]
       ELSE [run EXCEPT !.cursor = @ + 1]
  /\ UNCHANGED <<plugin, chain, request, cacheDatabaseMap>>

\* the chain has called all callbacks: Find returns, and the query with it
EndQuery ==
  /\ run.phase = "callbacks"
  /\ run.cursor > Len(chain)
  /\ request' = NoQuery
  /\ run' = NoRun
  /\ UNCHANGED <<plugin, chain, cacheDatabaseMap>>

\* the conditions queryCallback hands to applyFilter (lines 55-65, 141-152)
Handled(version, cond) ==
  IF version = "plugin.go:1-85"
    THEN cond.op \in {"eq", "eqslice", "eqmap", "eqcolumn"}
    ELSE cond.op \in {"eq", "eqmap", "eqcolumn", "in"}

\* map[string]any{column: value} of lines 76 and 176
FilterOf(cond) ==
  << << Entry(cond.col,
              CASE cond.op = "eq" -> ScalarVal(cond.vals[1])
                [] cond.op = "eqslice" -> SliceVal(cond.vals)
                [] cond.op = "in" -> SliceVal(cond.vals)
                [] cond.op = "eqmap" -> MapVal(cond.m)) >> >>

\* addDeepFilters(db, objectType, wildcards, filters...), the compiler the
\* plugin calls: AddDeepFilters, whose filter values hold no wildcard
addDeepFilters(cache, db, objectType, wildcards, filters) ==
  AddDeepFilters(cache, db, objectType, filters)

\* the expression applyFilter puts at the index: Exprs[0] of the compiled
\* WHERE (line 84), or what the loop of lines 184-186 assigned last
Replacement(version, exprs) ==
  IF version = "plugin.go:1-85" THEN exprs[1] ELSE exprs[Len(exprs)]

\* an applyFilter that puts the compiled expression at the index even when
\* the compiler returned an error
AfterCompileIgnoringErr(applied) ==
  /\ cacheDatabaseMap' = applied.cache
  /\ IF applied.fault
       THEN /\ request' = [request EXCEPT !.fault = TRUE]
            /\ run' = [run EXCEPT !.phase = "panicked"]
     ELSE IF applied.err # NoErr
       THEN /\ request' = [request EXCEPT
                           !.Error = Append(@, applied.err),
                           !.db.Statement.Where[run.index] =
                              ClauseRaw("", "")]
            /\ run' = [run EXCEPT !.index = @ + 1, !.failed = @ \cup {run.index}]
     ELSE /\ request' = [request EXCEPT !.db.Statement.Where[run.index] =
                          Replacement(plugin.version, applied.db.Statement.Where)]
          /\ run' = [run EXCEPT !.index = @ + 1]

\* lines 78-84 and 178-186: what applyFilter does with (applied, err)
AfterCompile(applied) ==
  /\ cacheDatabaseMap' = applied.cache
  /\ IF applied.fault
       THEN /\ request' = [request EXCEPT !.fault = TRUE]
            /\ run' = [run EXCEPT !.phase = "panicked"]
     ELSE IF applied.err # NoErr
       THEN /\ request' = [request EXCEPT !.Error = Append(@, applied.err)]
            /\ run' = [run EXCEPT !.index = @ + 1, !.failed = @ \cup {run.index}]
     ELSE /\ request' = [request EXCEPT !.db.Statement.Where[run.index] =
                          Replacement(plugin.version, applied.db.Statement.Where)]
          /\ run' = [run EXCEPT !.index = @ + 1]

\* one iteration of the range over exp.Exprs (lines 53-67, 139-153) with the
\* applyFilter call it makes
ApplyFilter ==
  /\ run.phase = "deepgorm:query"
  /\ run.index <= Len(request.db.Statement.Where)
  /\ IF ~Handled(plugin.version, request.db.Statement.Where[run.index])
       THEN /\ run' = [run EXCEPT !.index = @ + 1]
            /\ UNCHANGED <<request, cacheDatabaseMap>>
     ELSE IF request.db.Statement.Where[run.index].op = "eqcolumn"
       \* cond.Column is no string: line 76 asserts it is and panics, lines
       \* 167-174 return
       THEN IF plugin.version = "plugin.go:1-85"
              THEN /\ request' = [request EXCEPT !.fault = TRUE]
                   /\ run' = [run EXCEPT !.phase = "panicked"]
                   /\ UNCHANGED cacheDatabaseMap
              ELSE /\ run' = [run EXCEPT !.index = @ + 1]
                   /\ UNCHANGED <<request, cacheDatabaseMap>>
     ELSE AfterCompile(
            addDeepFilters(cacheDatabaseMap, Session(request.db, TRUE),
                           request.db.Statement.Model, plugin.wildcards,
                           FilterOf(request.db.Statement.Where[run.index])))
  /\ UNCHANGED <<plugin, chain>>

\* lines 69 and 155: the range ended, queryCallback returns to the chain
EndQueryCallback ==
  /\ run.phase = "deepgorm:query"
  /\ run.index > Len(request.db.Statement.Where)
  /\ run' = [run EXCEPT !.phase = "callbacks", !.cursor = @ + 1,
                        !.rewritten = TRUE]
  /\ UNCHANGED <<plugin, chain, request, cacheDatabaseMap>>

PluginInit ==
  /\ build = "deep-filtering.go"
  /\ migrated \in Programs
  /\ cacheDatabaseMap = NoCache
  /\ pc = "idle"
  /\ call = NoCall
  /\ outcome = NoOutcome
  /\ NoLookups
  /\ NoPlugin
  /\ classifier = NoClassifier
  /\ lookup = NoLookupCall
  /\ compile = NoCompile

PluginNext ==
  /\ \/ Initialize
     \/ StartQuery
     \/ NextCallback
     \/ ApplyFilter
     \/ EndQueryCallback
     \/ EndQuery
  /\ UNCHANGED <<build, migrated, pc, call, outcome, cacheVars, classifier, lookup, compile>>

PluginSpec == PluginInit /\ [][PluginNext]_vars

-----------------------------------------------------------------------------
\* What the properties talk about.

\* the join tables of the programs: the column that references each side
JoinColumns ==
  [ a_b |-> [ManyA |-> "many_a_id", ManyB |-> "many_b_id"],
    middles |-> [Resource |-> "resourceIdJ", End |-> "endIdJ"] ]

FieldByName(t, n) ==
  Schema[t].fields[CHOOSE i \in DOMAIN Schema[t].fields : Schema[t].fields[i].Name = n]

HasTag(f, tag) == tag \in DOMAIN f.TagSettings

ElemType(f) == ensureNotASlice(f.FieldType).name

IsStructShaped(f) == ensureConcrete(f.FieldType).kind = "struct"

IsCollectionShaped(f) == ensureConcrete(f.FieldType).kind = "slice"

\* the struct or collection field of t a filter key names, as a set
FieldsOfKey(t, k) ==
  { Schema[t].fields[i] : i \in { j \in StructFields(t) : StructKey(t, j) = k } }

\* a call of deep-filtering.go's AddDeepFilters has returned or panicked
Called == build = "deep-filtering.go" /\ pc = "returned"

Succeeded == Called /\ ~outcome.isNil /\ outcome.err = NoErr /\ ~outcome.fault

\* the rows the caller's query selected before the call added to it
PriorRows(d) == Find(getInstance(call.db), call.objectType, d)

Selected(d) == Find(outcome.db, call.objectType, d)

OwnRows(d) == d[Schema[call.objectType].table]

\* the call has one filter mapping with the one key k, whose value is a
\* nested mapping with one scalar entry
SingleRelationalCall ==
  /\ Called
  /\ Len(call.filters) = 1
  /\ Len(call.filters[1]) = 1
  /\ call.filters[1][1].val.kind = "map"
  /\ Len(call.filters[1][1].val.m) = 1
  /\ call.filters[1][1].val.m[1].val.kind = "scalar"

TheKey == call.filters[1][1].key
TheNested == call.filters[1][1].val.m[1]

\* C1 (to-one): when the filter is {relation: {column: X}} and relation is a
\* struct-shaped field annotated with a foreign key of the filtered entity,
\* the call succeeds and in every database state the query selects exactly
\* the rows (among those the caller's query selected) whose foreign-key column
\* equals the id of a related row with column = X.
ToOneCorrect ==
  SingleRelationalCall =>
    \A f \in FieldsOfKey(call.objectType, TheKey) :
      (IsStructShaped(f) /\ HasTag(f, "FOREIGNKEY")
         /\ TheNested.key \in StringColumns(ElemType(f))) =>
        /\ Succeeded
        /\ \A d \in Databases[migrated] :
             Selected(d) =
               { p \in PriorRows(d) :
                   \E r \in d[Schema[ElemType(f)].table] :
                     /\ p[FieldByName(call.objectType, f.TagSettings["FOREIGNKEY"]).DBName] = r.id
                     /\ r[TheNested.key] = TheNested.val.s }

\* a to-one call for which some database state has selected and unselected rows
ToOneWitness ==
  /\ SingleRelationalCall
  /\ \E f \in FieldsOfKey(call.objectType, TheKey) :
       /\ IsStructShaped(f) /\ HasTag(f, "FOREIGNKEY")
       /\ TheNested.key \in StringColumns(ElemType(f))
  /\ Succeeded
  /\ \E d \in Databases[migrated] : Selected(d) # {} /\ Selected(d) # OwnRows(d)

\* C2 (to-many): when the filter is {relation: {column: X}} and relation is a
\* collection-shaped field annotated with a foreign key held by the related
\* entity, the call succeeds and in every database state the query selects
\* exactly the rows (among those the caller's query selected) for which some
\* related row has its foreign key equal to the row's id and column = X.
ToManyCorrect ==
  SingleRelationalCall =>
    \A f \in FieldsOfKey(call.objectType, TheKey) :
      (IsCollectionShaped(f) /\ HasTag(f, "FOREIGNKEY") /\ ~HasTag(f, "MANY2MANY")
         /\ TheNested.key \in StringColumns(ElemType(f))) =>
        /\ Succeeded
        /\ \A d \in Databases[migrated] :
             Selected(d) =
               { p \in PriorRows(d) :
                   \E r \in d[Schema[ElemType(f)].table] :
                     /\ r[FieldByName(ElemType(f), f.TagSettings["FOREIGNKEY"]).DBName] = p.id
                     /\ r[TheNested.key] = TheNested.val.s }

ToManyWitness ==
  /\ SingleRelationalCall
  /\ \E f \in FieldsOfKey(call.objectType, TheKey) :
       /\ IsCollectionShaped(f) /\ HasTag(f, "FOREIGNKEY") /\ ~HasTag(f, "MANY2MANY")
       /\ TheNested.key \in StringColumns(ElemType(f))
  /\ Succeeded
  /\ \E d \in Databases[migrated] : Selected(d) # {} /\ Selected(d) # OwnRows(d)

\* C3 (many-to-many): when the filter is {relation: {column: X}} and relation
\* is a collection field declared many2many over a two-column join table, the
\* call succeeds and in every database state the query selects exactly the
\* rows (among those the caller's query selected) that a join row pairs with
\* a related row with column = X.
ManyToManyCorrect ==
  SingleRelationalCall =>
    \A f \in FieldsOfKey(call.objectType, TheKey) :
      (IsCollectionShaped(f) /\ HasTag(f, "MANY2MANY") /\ ~HasTag(f, "FOREIGNKEY")
         /\ TheNested.key \in StringColumns(ElemType(f))) =>
        /\ Succeeded
        /\ \A d \in Databases[migrated] :
             Selected(d) =
               { p \in PriorRows(d) :
                   \E j \in d[f.TagSettings["MANY2MANY"]] :
                     \E r \in d[Schema[ElemType(f)].table] :
                       /\ j[JoinColumns[f.TagSettings["MANY2MANY"]][call.objectType]] = p.id
                       /\ j[JoinColumns[f.TagSettings["MANY2MANY"]][ElemType(f)]] = r.id
                       /\ r[TheNested.key] = TheNested.val.s }

ManyToManyWitness ==
  /\ SingleRelationalCall
  /\ \E f \in FieldsOfKey(call.objectType, TheKey) :
       /\ IsCollectionShaped(f) /\ HasTag(f, "MANY2MANY") /\ ~HasTag(f, "FOREIGNKEY")
       /\ TheNested.key \in StringColumns(ElemType(f))
  /\ Succeeded
  /\ \E d \in Databases[migrated] : Selected(d) # {} /\ Selected(d) # OwnRows(d)

\* the entries of all filter mappings of the call, in iteration order
TopLevel == Flatten(call.filters)

\* the relation cache entry of the filtered entity, stored by the call
RelationCache == cacheDatabaseMap[reflectTypeName(call.objectType)]

\* the keys that carry a nested mapping and are no entry of the relation cache
UnknownRelationalKeys ==
  { TopLevel[i].key :
      i \in { j \in DOMAIN TopLevel : /\ TopLevel[j].val.kind = "map"
                                      /\ TopLevel[j].key \notin DOMAIN RelationCache } }

\* C4 (unknown field rejection): whenever some filter mapping of a call has a
\* nested-mapping value under a key that is no entry of the entity's relation
\* cache, the call returns a nil query and the error "field '<key>' does not
\* exist" for such a key, whatever the other keys and mappings are.
UnknownFieldRejected ==
  (Called /\ UnknownRelationalKeys # {}) =>
    /\ outcome.isNil
    /\ ~outcome.fault
    /\ \E k \in UnknownRelationalKeys : outcome.err = FieldErr(k)

\* every key of mapping m that carries a nested mapping is, at every nesting
\* level, an entry of the relation mapping of the entity it is applied to
RECURSIVE Compilable(_, _)
Compilable(t, m) ==
  \A i \in DOMAIN m :
    m[i].val.kind = "map" =>
      /\ m[i].key \in DOMAIN reflectFields(t)
      /\ Compilable(reflectFields(t)[m[i].key].fieldStructInstance, m[i].val.m)

\* the first entry of the call that cannot be compiled is a relation of the
\* filtered entity whose nested mapping fails to compile, at depth 2 or below
FailsAtDepth ==
  \E i \in DOMAIN TopLevel :
    /\ Compilable(call.objectType, SubSeq(TopLevel, 1, i - 1))
    /\ TopLevel[i].val.kind = "map"
    /\ TopLevel[i].key \in DOMAIN RelationCache
    /\ ~Compilable(RelationCache[TopLevel[i].key].fieldStructInstance, TopLevel[i].val.m)

\* C5 (error propagation at depth): when compiling a nested mapping fails at
\* recursion depth 2 or below, the call returns a nil query and an error value
\* and does not panic.
NestedFailureReturned ==
  (Called /\ FailsAtDepth) =>
    /\ outcome.isNil
    /\ outcome.err # NoErr
    /\ ~outcome.fault

\* C6 (sub-query scope isolation): in every call of either build, each scope an
\* addDeepFilter invocation builds its sub-selects on, at every depth, starts
\* without any WHERE condition.
SubQueryScopeIsolated ==
  pc = "returned" => \A i \in DOMAIN outcome.scopes : outcome.scopes[i] = <<>>

\* C6, deep-filtering.go alone: every scope of its addDeepFilter invocations is
\* empty, whatever the caller's query held and whatever predicates precede
FreshScopeInDeepFiltering ==
  Called => \A i \in DOMAIN outcome.scopes : outcome.scopes[i] = <<>>

\* a call of deep-filtering.go on a conditioned query that compiled two sibling
\* relational predicates or a nested one
FreshScopeWitness ==
  /\ Called
  /\ Succeeded
  /\ getInstance(call.db).Statement.Where # <<>>
  /\ Len(outcome.scopes) >= 2

\* what AddDeepFilters returns on the caller's query for the one entry e alone
Alone(e) == AddDeepFilters(cacheDatabaseMap, call.db, call.objectType, << <<e>> >>)

\* the call has a scalar entry s and a relational entry r that compiles, in
\* one mapping or in two, in either order
ScalarAndRelationalCall ==
  /\ Called
  /\ Len(TopLevel) = 2
  /\ \E i \in 1..2 :
       /\ TopLevel[i].val.kind = "scalar"
       /\ TopLevel[3 - i].val.kind = "map"
       /\ Compilable(call.objectType, <<TopLevel[3 - i]>>)

TheScalar == TopLevel[CHOOSE i \in 1..2 : TopLevel[i].val.kind = "scalar"]
TheRelational == TopLevel[CHOOSE i \in 1..2 : TopLevel[i].val.kind = "map"]

\* C7 (multi-filter AND composition): for a scalar entry s and a relational
\* entry r, the calls ({r},{s}), ({s},{r}) and ({s, r}) all succeed and select,
\* in every database state, exactly the rows that s alone and r alone both
\* select.
MultiFilterIsIntersection ==
  ScalarAndRelationalCall =>
    /\ Succeeded
    /\ LET s == Alone(TheScalar).db
           r == Alone(TheRelational).db
       IN \A d \in Databases[migrated] :
            Selected(d) = Find(s, call.objectType, d) \cap Find(r, call.objectType, d)

\* such a call, given as two mappings, that selects a row in some database
\* state and, in some database state, neither all rows s alone selects nor
\* all rows r alone selects
MultiFilterWitness ==
  /\ ScalarAndRelationalCall
  /\ Len(call.filters) = 2
  /\ Succeeded
  /\ LET s == Alone(TheScalar).db
         r == Alone(TheRelational).db
     IN /\ \E d \in Databases[migrated] : Selected(d) # {}
        /\ \E d \in Databases[migrated] :
             /\ Selected(d) # Find(s, call.objectType, d)
             /\ Selected(d) # Find(r, call.objectType, d)

\* the call has two filter mappings, each with the one scalar entry of key k
SameScalarKeyCall ==
  /\ Called
  /\ Len(call.filters) = 2
  /\ Len(call.filters[1]) = 1 /\ Len(call.filters[2]) = 1
  /\ call.filters[1][1].val.kind = "scalar"
  /\ call.filters[2][1].val.kind = "scalar"
  /\ call.filters[1][1].key = call.filters[2][1].key
  /\ call.filters[1][1].key \in StringColumns(call.objectType)

\* C8 (same scalar key in several mappings): when two mappings give the values
\* v1 and v2 for the same scalar key, the query selects exactly the rows with
\* key = v1 and key = v2, so no row when the values differ.
SameScalarKeyAnded ==
  SameScalarKeyCall =>
    /\ Succeeded
    /\ \A d \in Databases[migrated] :
         Selected(d) =
           { p \in PriorRows(d) :
               /\ p[call.filters[1][1].key] = call.filters[1][1].val.s
               /\ p[call.filters[2][1].key] = call.filters[2][1].val.s }

\* row r of the related table is related to row p of entity t through field f
Related(t, f, p, r, d) ==
  IF HasTag(f, "FOREIGNKEY")
    THEN IF IsStructShaped(f)
           THEN p[FieldByName(t, f.TagSettings["FOREIGNKEY"]).DBName] = r.id
           ELSE r[FieldByName(ElemType(f), f.TagSettings["FOREIGNKEY"]).DBName] = p.id
  ELSE \E j \in d[f.TagSettings["MANY2MANY"]] :
         /\ j[JoinColumns[f.TagSettings["MANY2MANY"]][t]] = p.id
         /\ j[JoinColumns[f.TagSettings["MANY2MANY"]][ElemType(f)]] = r.id

\* the call has two filter mappings, each with the one entry of the same
\* relational key, whose nested mapping has one scalar entry; the relation is
\* declared by a foreign key or by a join table, not by both
SameRelationKeyCall ==
  /\ Called
  /\ Len(call.filters) = 2
  /\ \A n \in 1..2 :
       /\ Len(call.filters[n]) = 1
       /\ call.filters[n][1].val.kind = "map"
       /\ Len(call.filters[n][1].val.m) = 1
       /\ call.filters[n][1].val.m[1].val.kind = "scalar"
  /\ call.filters[1][1].key = call.filters[2][1].key
  /\ call.filters[1][1].key \in DOMAIN RelationCache
  /\ \A f \in FieldsOfKey(call.objectType, call.filters[1][1].key) :
       ~(HasTag(f, "FOREIGNKEY") /\ HasTag(f, "MANY2MANY"))
  /\ \A n \in 1..2 :
       call.filters[n][1].val.m[1].key
         \in StringColumns(RelationCache[call.filters[1][1].key].fieldStructInstance)

\* the related rows of p that match the nested mapping of the n-th mapping
Matching(n, f, p, d) ==
  { r \in d[Schema[ElemType(f)].table] :
      /\ Related(call.objectType, f, p, r, d)
      /\ r[call.filters[n][1].val.m[1].key] = call.filters[n][1].val.m[1].val.s }

\* C9 (same relation key in several mappings): when two mappings give nested
\* mappings under the same relational key, a row is selected iff it has a
\* related row matching the first nested mapping and a related row, possibly
\* another one, matching the second.
SameRelationKeyIndependent ==
  SameRelationKeyCall =>
    \A f \in FieldsOfKey(call.objectType, call.filters[1][1].key) :
      /\ Succeeded
      /\ \A d \in Databases[migrated] :
           Selected(d) = { p \in PriorRows(d) : /\ Matching(1, f, p, d) # {}
                                                /\ Matching(2, f, p, d) # {} }

\* such a call selecting, in some database state, a row none of whose related
\* rows matches both nested mappings
SameRelationKeyWitness ==
  /\ SameRelationKeyCall
  /\ Succeeded
  /\ \E f \in FieldsOfKey(call.objectType, call.filters[1][1].key) :
       \E d \in Databases[migrated] :
         \E p \in Selected(d) : Matching(1, f, p, d) \cap Matching(2, f, p, d) = {}

\* the keys of the call that name neither a column nor a relation cache entry
UnresolvedKeys ==
  { TopLevel[i].key :
      i \in { j \in DOMAIN TopLevel : /\ TopLevel[j].key \notin Columns(call.objectType)
                                      /\ TopLevel[j].key \notin DOMAIN RelationCache } }

LastSimple ==
  { i \in DOMAIN TopLevel :
      /\ TopLevel[i].val.kind # "map"
      /\ \A j \in DOMAIN TopLevel :
           (j > i /\ TopLevel[j].key = TopLevel[i].key) => TopLevel[j].val.kind = "map" }

SimplePredicate(e) ==
  IF e.val.kind = "slice"
    THEN ClauseIN(Schema[call.objectType].table, e.key, e.val.l)
    ELSE ClauseEq(Schema[call.objectType].table, e.key, e.val.s)

-----------------------------------------------------------------------------
\* Scalar keys.

\* the call is on an entity with scalar fields only and has one filter
\* mapping with one key, a string column, whose value is a scalar or a slice
ScalarOnlyCall ==
  /\ Called
  /\ StructFields(call.objectType) = {}
  /\ Len(call.filters) = 1
  /\ Len(call.filters[1]) = 1
  /\ call.filters[1][1].key \in StringColumns(call.objectType)
  /\ call.filters[1][1].val.kind # "map"

\* row p passes the scalar or slice entry e
Passes(p, e) ==
  IF e.val.kind = "slice"
    THEN \E n \in DOMAIN e.val.l : p[e.key] = e.val.l[n]
    ELSE p[e.key] = e.val.s

\* the WHERE list of the caller's query
PriorWhere == getInstance(call.db).Statement.Where

\* C11 (scalar round-trip): on an entity with scalar fields only, the filter
\* {field: value} succeeds and selects in every database state exactly the
\* rows (among those the caller's query selected) with field = value, or for
\* a slice value those whose field is a member of the slice; and in every
\* successful call the scalar keys are the last predicates of the query, one
\* per key and qualified with the table of the entity, after the caller's
\* predicates and the relational sub-select predicates.
ScalarRoundTrip ==
  /\ ScalarOnlyCall =>
        /\ Succeeded
        /\ \A d \in Databases[migrated] :
             Selected(d) = { p \in PriorRows(d) : Passes(p, call.filters[1][1]) }
  /\ Succeeded =>
        LET where == outcome.db.Statement.Where
            first == Len(where) - Cardinality(LastSimple)
        IN /\ first >= Len(PriorWhere)
           /\ SubSeq(where, 1, Len(PriorWhere)) = PriorWhere
           /\ \A n \in (Len(PriorWhere) + 1)..first : where[n].op = "expr"
           /\ { where[n] : n \in (first + 1)..Len(where) } =
                { SimplePredicate(TopLevel[i]) : i \in LastSimple }

\* a slice filter on an entity with scalar fields only that selects some but
\* not all rows of some database state
ScalarRoundTripWitness ==
  /\ ScalarOnlyCall
  /\ Succeeded
  /\ call.filters[1][1].val.kind = "slice"
  /\ outcome.db.Statement.Where[Len(outcome.db.Statement.Where)].table =
       Schema[call.objectType].table
  /\ \E d \in Databases[migrated] : Selected(d) # {} /\ Selected(d) # OwnRows(d)

-----------------------------------------------------------------------------
\* The relation cache.

\* goroutine t holds the result of a lookup it has finished
Finished(t) == lookups[t].pc = "idle" /\ lookups[t].result # 0

\* the lookup goroutine t finished began after a lookup of the same type
\* had returned
Repeated(t) ==
  /\ Finished(t)
  /\ \E r \in lookups[t].after : r.typ = lookups[t].typ

\* C12 (cache idempotence): a lookup for a type that begins after a lookup
\* for the same type has returned returns a mapping structurally equal to
\* the one the earlier lookup returned, and is a cache hit: it visits no
\* field and stores nothing.
CacheIdempotent ==
  \A t \in Threads :
    Repeated(t) =>
      /\ \A r \in lookups[t].after :
           r.typ = lookups[t].typ => heap[lookups[t].result] = heap[r.obj]
      /\ ~lookups[t].reflected
      /\ ~lookups[t].stored
      /\ lookups[t].obj = 0

\* a goroutine finished its second lookup for a type with relations, after
\* its own first lookup for that type reflected and stored the mapping
CacheIdempotentWitness ==
  \E t \in Threads :
    /\ Repeated(t)
    /\ lookups[t].n = 2
    /\ DOMAIN heap[lookups[t].result] # {}
    /\ \A u \in Threads \ {t} : lookups[u].n = 0

\* the type the cache key n stands for
TypeOfKey(n) == CHOOSE typ \in migrated : reflectTypeName(typ) = n

\* C13 (concurrent cache population is safe): under every interleaving of
\* the goroutines, every mapping the cache holds, every mapping a lookup
\* loaded or is about to return and every mapping a lookup ever returned is
\* the completely populated relation mapping of its type (so none is changed
\* after it was stored or returned), and the cache holds an entry for every
\* type a lookup returned for; two goroutines may both compute the mapping.
CachePopulationSafe ==
  /\ \A n \in DOMAIN cacheRefs :
       /\ \E typ \in migrated : reflectTypeName(typ) = n
       /\ heap[cacheRefs[n]] = reflectFields(TypeOfKey(n))
  /\ \A t \in Threads :
       lookups[t].result # 0 =>
         heap[lookups[t].result] = reflectFields(lookups[t].typ)
  /\ \A r \in returned :
       /\ heap[r.obj] = reflectFields(r.typ)
       /\ reflectTypeName(r.typ) \in DOMAIN cacheRefs
  /\ cacheDatabaseMap = Contents(cacheRefs, heap)

\* two goroutines both missed, computed and stored the mapping of one type
\* with relations, and all lookups have returned
CachePopulationWitness ==
  /\ \A t \in Threads : lookups[t].pc = "idle"
  /\ \E t, u \in Threads :
       /\ t # u
       /\ Finished(t) /\ Finished(u)
       /\ lookups[t].typ = lookups[u].typ
       /\ lookups[t].stored /\ lookups[u].stored
       /\ lookups[t].result # lookups[u].result
       /\ DOMAIN heap[lookups[t].result] # {}

-----------------------------------------------------------------------------
\* Join tables with declared columns.

\* field f is a collection declared many2many with its own join columns
IsCustomJoin(f) ==
  /\ IsCollectionShaped(f)
  /\ {"MANY2MANY", "FOREIGNKEY", "JOINFOREIGNKEY", "REFERENCES", "JOINREFERENCES"}
       \subseteq DOMAIN f.TagSettings

\* the column of t that filter key k names
ColumnOfKey(t, k) ==
  IF k \in StringColumns(t) THEN k
  ELSE CHOOSE c \in StringColumns(t) :
         ColumnName(Schema[t].table, FieldOfColumn(t, c).Name) = k

\* the statement Find runs for the returned query
FoundStatement == [outcome.db.Statement EXCEPT !.Model = call.objectType]

\* C14 (many-to-many with custom join configuration): when the filter is
\* {relation: {field: X}} and relation is a collection declared many2many
\* with foreignKey, joinForeignKey, References and JoinReferences over types
\* whose columns and keys carry declared names, the call succeeds, the
\* database accepts the query, and in every database state the query selects
\* exactly the rows (among those the caller's query selected) that a row of
\* the declared join table links to a related row with field = X.
CustomJoinCorrect ==
  SingleRelationalCall =>
    \A f \in FieldsOfKey(call.objectType, TheKey) :
      (IsCustomJoin(f) /\ TheNested.key \in ScalarKeys(ElemType(f))) =>
        /\ Succeeded
        /\ Executes(FoundStatement, <<>>)
        /\ \A d \in Databases[migrated] :
             Selected(d) =
               { p \in PriorRows(d) :
                   \E j \in d[f.TagSettings["MANY2MANY"]] :
                     \E r \in d[Schema[ElemType(f)].table] :
                       /\ j[f.TagSettings["JOINFOREIGNKEY"]] = p[f.TagSettings["FOREIGNKEY"]]
                       /\ j[f.TagSettings["JOINREFERENCES"]] = r[f.TagSettings["REFERENCES"]]
                       /\ r[ColumnOfKey(ElemType(f), TheNested.key)] = TheNested.val.s }

-----------------------------------------------------------------------------
\* Order of the relational keys.

\* the call has two keys, both carrying nested mappings
TwoRelationalCall ==
  /\ Called
  /\ Len(TopLevel) = 2
  /\ TopLevel[1].val.kind = "map"
  /\ TopLevel[2].val.kind = "map"

\* the same call with its two keys visited in the other order
Permuted ==
  AddDeepFilters(cacheDatabaseMap, call.db, call.objectType,
                 << <<TopLevel[2]>>, <<TopLevel[1]>> >>)

\* C15 (order independence): when a call with two relational keys, in one
\* mapping or in two, returns a query, the call that visits the keys in the
\* other order returns a query as well, and in every database state both
\* queries select the same rows.
OrderIndependent ==
  (TwoRelationalCall /\ Succeeded) =>
    LET other == Permuted
    IN /\ ~other.isNil /\ other.err = NoErr /\ ~other.fault
       /\ \A d \in Databases[migrated] :
            Selected(d) = Find(other.db, call.objectType, d)

\* a call with two different relational keys in one mapping whose statement
\* differs from the permuted one, and which selects some rows but fewer
\* than the first key alone in some database state, and fewer than the
\* second key alone in some database state
OrderIndependentWitness ==
  /\ TwoRelationalCall
  /\ Succeeded
  /\ Len(call.filters) = 1
  /\ TopLevel[1].key # TopLevel[2].key
  /\ outcome.db.Statement.Where # Permuted.db.Statement.Where
  /\ \E d \in Databases[migrated] :
       /\ Selected(d) # {}
       /\ Selected(d) # Find(Alone(TopLevel[1]).db, call.objectType, d)
  /\ \E d \in Databases[migrated] :
       /\ Selected(d) # {}
       /\ Selected(d) # Find(Alone(TopLevel[2]).db, call.objectType, d)

-----------------------------------------------------------------------------
\* The plugin.

\* the position of a callback in the chain, 0 when it is not registered
PositionOf(name) ==
  IF \E i \in DOMAIN chain : chain[i] = name
    THEN CHOOSE i \in DOMAIN chain : chain[i] = name
    ELSE 0

\* C16 (plugin registration order): once Initialize has run it has returned
\* no error and the chain of query callbacks holds "deepgorm:query" before
\* "gorm:query"; so whenever "gorm:query" has run for a query, queryCallback
\* has run for it before, and the statement that is executed is the one
\* queryCallback left.
RegisteredBeforeQuery ==
  plugin.used =>
    /\ plugin.err = NoErr
    /\ PositionOf("deepgorm:query") > 0
    /\ PositionOf("deepgorm:query") < PositionOf("gorm:query")
    /\ (run.phase = "callbacks" /\ run.cursor > PositionOf("gorm:query"))
         => run.rewritten
    /\ run.phase = "deepgorm:query" => ~run.executed

\* a query with a nested-mapping condition has been executed after
\* queryCallback replaced the condition
RegisteredBeforeQueryWitness ==
  /\ plugin.used
  /\ run.executed
  /\ run.rewritten
  /\ \E i \in DOMAIN run.before :
       /\ run.before[i].op = "eqmap"
       /\ request.db.Statement.Where[i].op = "expr"

\* an equality or membership condition with a string, a string-slice or a
\* nested-mapping value
Rewritable(cond) == cond.op \in {"eq", "eqslice", "eqmap", "eqcolumn", "in"}

\* the filter a condition stands for: its column with its value
MappingOf(cond) ==
  << << Entry(cond.col,
              CASE cond.op \in {"eq", "eqcolumn"} -> ScalarVal(cond.vals[1])
                [] cond.op \in {"eqslice", "in"} -> SliceVal(cond.vals)
                [] cond.op = "eqmap" -> MapVal(cond.m)) >> >>

\* expr is all of what the compiler made of a filter
IsCompiled(expr, compiled) ==
  /\ ~compiled.fault
  /\ compiled.err = NoErr
  /\ compiled.db.Statement.Where = <<expr>>

\* queryCallback has run, or is running and has gone past position i
Passed(i) ==
  \/ run.rewritten
  \/ run.phase \in {"deepgorm:query", "panicked"} /\ i < run.index

\* C17 (plugin splices in place): queryCallback returns, and once it has
\* gone past a position of the WHERE list, a position that held an equality
\* or membership condition with a string, string-slice or nested-mapping
\* value (whose compilation returned no error) holds the whole compiled
\* predicate of that condition, every other position holds what it held,
\* and the list is as long as before; without a WHERE clause nothing
\* changes.
SplicesInPlace ==
  (run.rewritten \/ run.phase \in {"deepgorm:query", "panicked"}) =>
    /\ run.phase # "panicked"
    /\ Len(request.db.Statement.Where) = Len(run.before)
    /\ \A i \in DOMAIN run.before :
         Passed(i) =>
           IF Rewritable(run.before[i]) /\ i \notin run.failed
             THEN IsCompiled(request.db.Statement.Where[i],
                             AddDeepFilters(NoCache, Session(request.db, TRUE),
                                            request.db.Statement.Model,
                                            MappingOf(run.before[i])))
             ELSE request.db.Statement.Where[i] = run.before[i]

\* applyFilter was called for the condition at the index and its compiler
\* returned an error: the error is added to the errors of the query and the
\* WHERE list stays as it is
ErrorIsAdded(applied) ==
  (~applied.fault /\ applied.err # NoErr) =>
    /\ request'.Error = Append(request.Error, applied.err)
    /\ request'.db.Statement.Where = request.db.Statement.Where

\* C18 (plugin error handling): whenever the compiler returns an error to
\* applyFilter, the step adds that error to the errors of the query and
\* leaves the WHERE list, at the index of the condition and at every other
\* index, as it was.
CompileErrorKept ==
  [][ ( /\ run.phase = "deepgorm:query"
        /\ run.index <= Len(request.db.Statement.Where)
        /\ Handled(plugin.version, request.db.Statement.Where[run.index])
        /\ request.db.Statement.Where[run.index].op # "eqcolumn" )
      => ErrorIsAdded(
           addDeepFilters(cacheDatabaseMap, Session(request.db, TRUE),
                          request.db.Statement.Model, plugin.wildcards,
                          FilterOf(request.db.Statement.Where[run.index]))) ]_vars

\* a compilation has failed: the query has the error, the position holds
\* the condition it held, and queryCallback went on past it
CompileErrorKeptWitness ==
  \E i \in run.failed :
    /\ request.Error # <<>>
    /\ request.db.Statement.Where[i] = run.before[i]
    /\ Rewritable(run.before[i])
    /\ Passed(i)

-----------------------------------------------------------------------------
\* The classifier.

\* getNestedType has returned for a field with the given settings
Classified(settings) ==
  /\ classifier.pc = "returned"
  /\ DOMAIN classifier.dbField.TagSettings = settings

UnannotatedRejected ==
  /\ Classified({}) =>
       /\ ~classifier.ok
       /\ classifier.isNil
       /\ classifier.result = NoNestedType
       /\ classifier.err =
            <<"no 'foreignKey:...' or 'many2many:...' found in field %s",
              classifier.dbField.Name>>
  /\ (classifier.pc = "returned" /\ ~Classified({})) =>
       classifier.err = <<>> /\ ~classifier.isNil

\* a pointer to a struct without settings was rejected
UnannotatedRejectedWitness ==
  /\ Classified({})
  /\ classifier.dbField.FieldType = PtrT(StructT("NestedStruct1"))
  /\ classifier.dbField.Name = "A"
  /\ classifier.isNil
  /\ classifier.err # <<>>

-----------------------------------------------------------------------------
\* The relation cache over the life of a process.

\* the type of a field without its pointers and collection levels is a struct
HoldsStruct(f) == ensureNotASlice(f.FieldType).kind = "struct"

\* the field carries a foreignKey or a many2many setting
Annotated(f) == HasTag(f, "FOREIGNKEY") \/ HasTag(f, "MANY2MANY")

\* C22 (relation-cache content): the mapping a getDatabaseFieldsOfType call
\* computes for an entity type has an entry under the column name of a field
\* exactly when the type of the field, without pointers and collection
\* levels, is a struct and the field carries a foreignKey or a many2many
\* setting.
OnlyAnnotatedStructsMapped ==
  (lookup.pc = "returned" /\ ~lookup.hit) =>
    \A i \in DOMAIN TypeInfo(lookup.typ).fields :
      NamingColumnName(lookup.naming, TypeInfo(lookup.typ).table,
                       TypeInfo(lookup.typ).fields[i].Name) \in DOMAIN lookup.fields
        <=> ( /\ HoldsStruct(TypeInfo(lookup.typ).fields[i])
              /\ Annotated(TypeInfo(lookup.typ).fields[i]) )

\* the cache holds an entry for the type
Cached(t) == reflectTypeName(t) \in DOMAIN cacheDatabaseMap

\* C23 (cache entry lifecycle): the entry of an entity type is there only
\* after a call for that type created it, a call for another type never
\* creates it; and from one step to the next an entry stays in the cache
\* with the content it has, unless the step is resetCache.
EntryLifecycle ==
  /\ [](\A t \in LookupTypes :
          Cached(t) => lookup.creator[reflectTypeName(t)] = t)
  /\ [][ lookup'.pc # "reset" =>
           \A k \in DOMAIN cacheDatabaseMap :
             /\ k \in DOMAIN cacheDatabaseMap'
             /\ cacheDatabaseMap'[k] = cacheDatabaseMap[k] ]_vars

\* C27 (no cross-type cache hits): a getDatabaseFieldsOfType call for an
\* entity type that finds an entry in the cache finds one that a call for
\* the same type stored, and returns the relation mapping of its own type.
NoCrossTypeHit ==
  (lookup.pc = "returned" /\ lookup.hit) =>
    /\ lookup.creator[reflectTypeName(lookup.typ)] = lookup.typ
    /\ \E naming \in Namings :
         lookup.fields = reflectFieldsWith(naming, lookup.typ)

\* C28 (cached result equals a fresh computation): the mapping a
\* getDatabaseFieldsOfType call returns for an entity type, from an entry
\* that a call for the same type stored or computed by the call itself, is
\* the mapping an uncached classification of the type under the naming
\* strategy of the call gives.
CachedEqualsFresh ==
  ( /\ lookup.pc = "returned"
    /\ lookup.creator[reflectTypeName(lookup.typ)] = lookup.typ )
  => lookup.fields = reflectFieldsWith(lookup.naming, lookup.typ)

-----------------------------------------------------------------------------
\* The cache of unnamed/part_002

\* C29 (store key equals lookup key in the sync.Map variant): when a call
\* of part_002's AddDeepFilters for an entity type has returned, the mapping
\* its getDatabaseFieldsOfType computed is in the cache under the key a
\* lookup for that type loads, reflectType.Name(), so that the next call for
\* the type is a cache hit.
LegacyStoreKeyLoaded ==
  (build = "part_002" /\ pc = "returned") =>
    /\ reflectTypeName(call.objectType) \in DOMAIN cacheDatabaseMap
    /\ cacheDatabaseMap[reflectTypeName(call.objectType)] =
         reflectFields(call.objectType)

-----------------------------------------------------------------------------
\* Filters over several relationship hops

\* a call of either build has returned or panicked
CalledEither == pc = "returned"

\* the call has one filter mapping {k1: {k2: {column: X}}}
TwoHopCall ==
  /\ CalledEither
  /\ Len(call.filters) = 1
  /\ Len(call.filters[1]) = 1
  /\ call.filters[1][1].val.kind = "map"
  /\ Len(call.filters[1][1].val.m) = 1
  /\ call.filters[1][1].val.m[1].val.kind = "map"
  /\ Len(call.filters[1][1].val.m[1].val.m) = 1
  /\ call.filters[1][1].val.m[1].val.m[1].val.kind = "scalar"

FirstHop == call.filters[1][1].key
SecondHop == call.filters[1][1].val.m[1].key
Innermost == call.filters[1][1].val.m[1].val.m[1]

\* the field declares its relation by a foreign key or by a join table, not
\* by both
PlainRelation(f) ==
  (HasTag(f, "FOREIGNKEY") \/ HasTag(f, "MANY2MANY"))
    /\ ~(HasTag(f, "FOREIGNKEY") /\ HasTag(f, "MANY2MANY"))

\* the pairs of fields the two hops of the call go through
Hops ==
  { h \in FieldsOfKey(call.objectType, FirstHop) \X
          UNION { FieldsOfKey(ElemType(f), SecondHop) :
                    f \in FieldsOfKey(call.objectType, FirstHop) } :
      /\ h[2] \in FieldsOfKey(ElemType(h[1]), SecondHop)
      /\ PlainRelation(h[1]) /\ PlainRelation(h[2])
      /\ Innermost.key \in StringColumns(ElemType(h[2])) }

\* the rows of the caller's query related through h[1] to a row that is
\* related through h[2] to a row satisfying the innermost predicate
HopByHop(h, d) ==
  { p \in PriorRows(d) :
      \E r \in d[Schema[ElemType(h[1])].table] :
        /\ Related(call.objectType, h[1], p, r, d)
        /\ \E q \in d[Schema[ElemType(h[2])].table] :
             /\ Related(ElemType(h[1]), h[2], r, q, d)
             /\ q[Innermost.key] = Innermost.val.s }

\* what the claim says of a two-hop call
TwoHopsCompiled ==
  \A h \in Hops :
    /\ ~outcome.isNil /\ outcome.err = NoErr /\ ~outcome.fault
    /\ \A d \in Databases[migrated] : Selected(d) = HopByHop(h, d)

\* C24 (recursive compilation of multi-hop filters): when the filter of a
\* call of either build is {relation: {relation: {column: X}}}, over two
\* relationship hops of any kinds, the call succeeds and in every database
\* state the query selects exactly the rows (among those the caller's query
\* selected) related to a row that is related to a row with column = X.
MultiHopCorrect == TwoHopCall => TwoHopsCompiled

\* deep-filtering.go compiles the inner mapping with AddDeepFilters against
\* the related entity, whose relation cache entry the call leaves behind
MultiHopInDeepFiltering ==
  (TwoHopCall /\ Called) =>
    /\ TwoHopsCompiled
    /\ \A h \in Hops :
         /\ reflectTypeName(ElemType(h[1])) \in DOMAIN cacheDatabaseMap
         /\ cacheDatabaseMap[reflectTypeName(ElemType(h[1]))] =
              reflectFields(ElemType(h[1]))

\* a two-hop call of deep-filtering.go for which some database state has
\* selected and unselected rows
MultiHopWitness ==
  /\ TwoHopCall /\ Called /\ Hops # {}
  /\ TwoHopsCompiled
  /\ \E d \in Databases[migrated] : Selected(d) # {} /\ Selected(d) # OwnRows(d)

-----------------------------------------------------------------------------
\* Column names of the relational predicates

\* in every predicate "col IN (SELECT sel FROM ...)" of the statement, at
\* every depth, col is a column the schema has in the table the predicate is
\* placed on and sel a column it has in the table of the sub-select
RECURSIVE RelationColumnsResolve(_)
RECURSIVE ExprColumnsResolve(_, _)

RelationColumnsResolve(stmt) ==
  \A i \in DOMAIN stmt.Where : ExprColumnsResolve(stmt.Where[i], From(stmt))

ExprColumnsResolve(e, table) ==
  CASE e.op = "expr" ->
         /\ e.col \in ColumnsOfTable(table)
         /\ \A i \in DOMAIN e.sub[1].Selects :
              e.sub[1].Selects[i] \in ColumnsOfTable(From(e.sub[1]))
         /\ RelationColumnsResolve(e.sub[1])
    [] e.op = "and" -> \A i \in DOMAIN e.exprs : ExprColumnsResolve(e.exprs[i], table)
    [] OTHER -> TRUE

\* C25 (column names honour overrides): in the query a successful call
\* returns, every foreign-key or primary-key column a relational predicate
\* compares or selects is a column the schema resolves for the table it is
\* used on, also where a field declares its column name.
ColumnsHonourSchema ==
  Succeeded => RelationColumnsResolve(FoundStatement)

-----------------------------------------------------------------------------
\* The pair a call returns

\* the nested AddDeepFilters calls that compiling the entries on objectType
\* makes, at every depth, each with what it returns
RECURSIVE ReturnsBelow(_, _, _)
ReturnsBelow(db, objectType, entries) ==
  UNION { {AddDeepFilters(cacheDatabaseMap, cleanScope(db),
                          reflectFields(objectType)[entries[i].key].fieldStructInstance,
                          <<entries[i].val.m>>)}
          \cup ReturnsBelow(cleanScope(db),
                            reflectFields(objectType)[entries[i].key].fieldStructInstance,
                            entries[i].val.m) :
          i \in { j \in DOMAIN entries :
                    /\ entries[j].val.kind = "map"
                    /\ entries[j].key \in DOMAIN reflectFields(objectType) } }

\* a returned pair is a query without an error or an error without a query
ExactlyOne(r) ==
  /\ r.isNil <=> r.err # NoErr
  /\ r.isNil => r.db = NoDB

\* every AddDeepFilters call that returns, the caller's and the nested ones,
\* returns exactly one of query and error
ReturnsExactlyOne ==
  Called =>
    /\ ~outcome.fault => ExactlyOne(outcome)
    /\ \A r \in ReturnsBelow(call.db, call.objectType, TopLevel) :
         ~r.fault => ExactlyOne(r)

\* the call has two relational entries: the first one compiles, the second
\* one fails, by its own key or inside its nested mapping
LateFailure ==
  /\ Called
  /\ Len(TopLevel) = 2
  /\ TopLevel[1].val.kind = "map"
  /\ TopLevel[2].val.kind = "map"
  /\ Compilable(call.objectType, <<TopLevel[1]>>)
  /\ ~Compilable(call.objectType, <<TopLevel[2]>>)

\* C30 (exactly one of query and error): every AddDeepFilters call, the
\* caller's and the nested ones at every depth, yields a query with a nil
\* error or a nil query with an error; and when a relational entry fails
\* after an earlier relational entry was applied, the call yields a nil query
\* and the error.
OneOfQueryAndError ==
  /\ ReturnsExactlyOne
  /\ LateFailure => (~outcome.fault /\ outcome.isNil /\ outcome.err # NoErr)

\* a late failure by the key of the second entry itself
LateFailureAtTop ==
  (LateFailure /\ TopLevel[2].key \notin DOMAIN RelationCache) =>
    /\ ~outcome.fault /\ outcome.isNil
    /\ outcome.err = FieldErr(TopLevel[2].key)

-----------------------------------------------------------------------------
\* Termination of a call

\* the number of mappings nested in one another below the entries
RECURSIVE NestingDepth(_)
NestingDepth(entries) ==
  IF \A i \in DOMAIN entries : entries[i].val.kind # "map" THEN 0
  ELSE 1 + NestingDepth(
             entries[CHOOSE i \in DOMAIN entries :
                       /\ entries[i].val.kind = "map"
                       /\ \A j \in DOMAIN entries :
                            entries[j].val.kind = "map" =>
                              NestingDepth(entries[j].val.m)
                                <= NestingDepth(entries[i].val.m)].val.m)

\* the invocations on the stack are no more than the filter has levels
DepthBounded ==
  Len(compile.stack) <= 1 + NestingDepth(compile.entries)

\* C26 (termination): every AddDeepFilters call eventually returns a query
\* or an error to its caller, and while it runs the depth of its recursion is
\* at most the nesting depth of the filter mapping, also for entity types
\* that relate to each other in a cycle or to themselves.
EveryCallReturns ==
  /\ []DepthBounded
  /\ compile.pc = "running" ~> compile.pc \in {"returned", "failed"}

\* every call ends: it returns or it panics
EveryCallEnds ==
  /\ []DepthBounded
  /\ compile.pc = "running" ~> compile.pc \in {"returned", "failed", "panicked"}

\* the statement-by-statement call ends as AddDeepFilters does
StepsAgree ==
  compile.pc \in {"returned", "failed", "panicked"} =>
    /\ (compile.pc = "panicked") =
         AddDeepFilters(NoCache, [clone |-> 1, Statement |-> NoStatement],
                        compile.objectType, <<compile.entries>>).fault
    /\ (compile.pc = "returned") =
         ~AddDeepFilters(NoCache, [clone |-> 1, Statement |-> NoStatement],
                         compile.objectType, <<compile.entries>>).isNil

\* the recursion is back at the type the call began with, two levels down
CycleEntered ==
  /\ compile.pc = "running"
  /\ Len(compile.stack) = 3
  /\ compile.stack[3].objectType = compile.stack[1].objectType

====
